---- MODULE Spec2Model ----
(***************************************************************************)
(* euphony: incremental transcoding of a music collection.                 *)
(*                                                                         *)
(* The module models                                                       *)
(*   - AlbumWorkPacket (commands/transcode/packets/album.rs): the two      *)
(*     CachedValue cells, needs_processing, get_work_packets and           *)
(*     save_fresh_meta;                                                    *)
(*   - process_file_packets_in_threadpool (commands/transcode/mod.rs): the *)
(*     rayon scope, its spawned jobs, the progress bar mutex and the error *)
(*     channel;                                                            *)
(*   - the three commands cmd_transcode_all, cmd_transcode_library and     *)
(*     cmd_transcode_album (commands/transcode/mod.rs);                    *)
(*   - the resolution of the aggregated library configuration              *)
(*     (euphony_configuration core/aggregated_library.rs) before a run;    *)
(*   - the queue, progress and log functions of the terminal backend, its  *)
(*     render thread, setup and destroy                                    *)
(*     (console/backends/fancy/terminal.rs);                               *)
(*   - run_requested_cli_command and main (main.rs) around the command;    *)
(*   - the scan order of cmd_transcode_all (libraries by name, albums by   *)
(*     title);                                                             *)
(*   - the resolution of the paths table, of the libraries table and of a  *)
(*     library's transcoding table (euphony_configuration core/).          *)
(*                                                                         *)
(* Spec          is the loading of the configuration and a run of one of   *)
(*               the three commands, followed by the scan of a second run. *)
(* FairSpec      is Spec with every thread scheduled fairly.               *)
(* SpecAlbum     is any sequence of method calls on AlbumWorkPacket        *)
(*               objects of one album, over every saved / fresh pair.      *)
(* SpecAlbumDisk is SpecAlbum with the album directory changing between    *)
(*               the calls.                                                *)
(* SpecBatch     is a run on a library never transcoded before, with fair  *)
(*               scheduling of the main thread and of every job.           *)
(* SpecQueue     is any sequence of queue calls on one terminal backend.   *)
(* SpecProgress  is any sequence of queue, progress and log calls on a     *)
(*               backend with a short queue.                               *)
(* SpecRender    is the render thread next to queue calls of the main      *)
(*               thread, queue_item_finish step by step.                   *)
(* SpecMain      is transcode-all from main to the exit of the process.    *)
(* SpecStop      is SpecMain on a library never transcoded before, with    *)
(*               the render thread drawing and the user pressing 'q'.      *)
(* SpecLog       is any sequence of log calls, with short and long         *)
(*               contents.                                                 *)
(* SpecThreads   is the render thread next to log calls of the main        *)
(*               thread, lock request by lock request, and destroy().      *)
(* SpecOrder     is the scan and the library and album loops of            *)
(*               cmd_transcode_all on libraries listed in any order.       *)
(* SpecPaths, SpecLibraries and SpecTranscoding are the resolution of a    *)
(*               paths table, of a whole configuration and of a            *)
(*               transcoding table, the last with questions about files.   *)
(***************************************************************************)
EXTENDS Integers, Sequences, FiniteSets, TLC

----------------------------------------------------------------------------
(* Bounds *)

\* Albums of the collection (albums 1 and 2 are in library 1, all the others
\* in library 2).
MaxAlbums == 2
\* Tracked file paths an album directory can hold.
MaxFiles == 2
\* Largest transcode_threads value.
MaxThreads == 2

\* Queue items a terminal backend is asked to add.
MaxQueueItems == 2

Albums == 1..MaxAlbums
Paths == 1..MaxFiles
\* Two fingerprints are enough to tell "changed" from "unchanged".
Fingerprints == {"f1", "f2"}

LibraryOf(a) == IF a <= 2 THEN 1 ELSE 2
Libraries == {LibraryOf(a) : a \in Albums}

----------------------------------------------------------------------------
(* Option<T> and CachedValue<T>: <<>> is None / not cached, <<v>> holds v. *)

None == <<>>
Some(v) == <<v>>
is_none(o) == o = <<>>
unwrap(o) == o[1]

new_empty == <<>>
is_cached(c) == c # <<>>
cache_get(c) == c[1]
cache_set(v) == <<v>>

----------------------------------------------------------------------------
(* LibraryMeta: a snapshot, files maps each tracked path to a fingerprint. *)

\* Every snapshot over Paths.
LibraryMetas ==
    UNION {{[files |-> f] : f \in [d -> Fingerprints]} : d \in SUBSET Paths}

\* A plausible slip: every path of both snapshots counts as changed.
diff_ignores_fingerprints(saved, fresh) ==
    [added   |-> (DOMAIN fresh.files) \ (DOMAIN saved.files),
     removed |-> (DOMAIN saved.files) \ (DOMAIN fresh.files),
     changed |-> (DOMAIN saved.files) \cap (DOMAIN fresh.files)]

\* LibraryMeta::diff(saved, fresh)
diff(saved, fresh) ==
    [added   |-> (DOMAIN fresh.files) \ (DOMAIN saved.files),
     removed |-> (DOMAIN saved.files) \ (DOMAIN fresh.files),
     changed |-> {p \in (DOMAIN saved.files) \cap (DOMAIN fresh.files) :
                     saved.files[p] # fresh.files[p]}]

has_any_changes(d) == d.added # {} \/ d.removed # {} \/ d.changed # {}

----------------------------------------------------------------------------
(* AlbumWorkPacket.  A method is an operator from the packet and the disk  *)
(* (the sidecar file and the generated fresh snapshot of the album         *)
(* directory) to the value returned and the packet afterwards.             *)

from_album_info == [cached_saved_meta |-> new_empty,
                    cached_fresh_meta |-> new_empty]

get_saved_meta(packet, disk_saved) ==
    IF is_cached(packet.cached_saved_meta)
    THEN [value |-> cache_get(packet.cached_saved_meta), packet |-> packet]
    ELSE [value |-> disk_saved,
          packet |-> [packet EXCEPT !.cached_saved_meta = cache_set(disk_saved)]]

\* A plausible slip: the fresh snapshot is generated again on every access.
get_fresh_meta_always_generates(packet, disk_fresh) ==
    [value |-> disk_fresh,
     packet |-> [packet EXCEPT !.cached_fresh_meta = cache_set(disk_fresh)]]

get_fresh_meta(packet, disk_fresh) ==
    IF is_cached(packet.cached_fresh_meta)
    THEN [value |-> cache_get(packet.cached_fresh_meta), packet |-> packet]
    ELSE [value |-> disk_fresh,
          packet |-> [packet EXCEPT !.cached_fresh_meta = cache_set(disk_fresh)]]

\* A plausible slip: an album without a sidecar file is taken as up to date.
needs_processing_none_is_clean(packet, disk_saved, disk_fresh) ==
    LET s == get_saved_meta(packet, disk_saved) IN
    IF is_none(s.value)
    THEN [value |-> FALSE, packet |-> s.packet]
    ELSE LET f == get_fresh_meta(s.packet, disk_fresh) IN
         [value |-> has_any_changes(diff(unwrap(s.value), f.value)),
          packet |-> f.packet]

\* A plausible slip: the fresh snapshot is generated even when no saved
\* snapshot exists.
needs_processing_generates_first(packet, disk_saved, disk_fresh) ==
    LET s == get_saved_meta(packet, disk_saved)
        f == get_fresh_meta(s.packet, disk_fresh)
    IN [value |-> IF is_none(s.value) THEN TRUE
                  ELSE has_any_changes(diff(unwrap(s.value), f.value)),
        packet |-> f.packet]

\* A plausible slip: every album is processed on every run.
needs_processing_always(packet, disk_saved, disk_fresh) ==
    LET s == get_saved_meta(packet, disk_saved) IN
    IF is_none(s.value)
    THEN [value |-> TRUE, packet |-> s.packet]
    ELSE LET f == get_fresh_meta(s.packet, disk_fresh) IN
         [value |-> TRUE, packet |-> f.packet]

needs_processing(packet, disk_saved, disk_fresh) ==
    LET s == get_saved_meta(packet, disk_saved) IN
    IF is_none(s.value)
    THEN [value |-> TRUE, packet |-> s.packet]
    ELSE LET f == get_fresh_meta(s.packet, disk_fresh) IN
         [value |-> has_any_changes(diff(unwrap(s.value), f.value)),
          packet |-> f.packet]

\* The paths of a snapshot in the order the packets are built.
FilesInOrder(meta) ==
    SelectSeq([p \in Paths |-> p], LAMBDA p : p \in DOMAIN meta.files)

\* A plausible slip: only the files the diff names get a packet.
get_work_packets_of_diff_only(packet, disk_saved, disk_fresh) ==
    LET n == needs_processing(packet, disk_saved, disk_fresh) IN
    IF ~n.value
    THEN [value |-> <<>>, packet |-> n.packet]
    ELSE LET f == get_fresh_meta(n.packet, disk_fresh)
             s == get_saved_meta(f.packet, disk_saved)
         IN [value |-> IF is_none(s.value) THEN FilesInOrder(f.value)
                       ELSE LET d == diff(unwrap(s.value), f.value) IN
                            SelectSeq(FilesInOrder(f.value),
                                      LAMBDA p : p \in d.added \cup d.changed),
             packet |-> f.packet]

get_work_packets(packet, disk_saved, disk_fresh) ==
    LET n == needs_processing(packet, disk_saved, disk_fresh) IN
    IF ~n.value
    THEN [value |-> <<>>, packet |-> n.packet]
    ELSE LET f == get_fresh_meta(n.packet, disk_fresh) IN
         [value |-> FilesInOrder(f.value), packet |-> f.packet]

\* A plausible slip: the snapshot is generated again when it is saved.
save_fresh_meta_regenerates(packet, disk_fresh) ==
    [value |-> Some(disk_fresh),
     packet |-> [packet EXCEPT !.cached_fresh_meta = cache_set(disk_fresh)]]

\* A plausible slip: a default (empty) LibraryMeta is written.
save_fresh_meta_writes_default(packet, disk_fresh) ==
    LET f == get_fresh_meta(packet, disk_fresh) IN
    [value |-> Some([files |-> <<>>]), packet |-> f.packet]

\* save_fresh_meta: the sidecar file afterwards and the packet afterwards.
save_fresh_meta(packet, disk_fresh) ==
    LET f == get_fresh_meta(packet, disk_fresh) IN
    [value |-> Some(f.value), packet |-> f.packet]

----------------------------------------------------------------------------
(* Configuration: UnresolvedAggregatedLibraryConfiguration::try_resolve.   *)
(* path is what dunce::canonicalize and to_str make of the configured      *)
(* path; the result is the error, or "none" and the resolved threads.      *)

PathOutcomes == {"valid", "missing", "not_utf8"}

ConfigurationErrors ==
    {"FailedToCanonicalizePath", "PathIsNotUtf8", "ZeroTranscodeThreads"}

\* A plausible slip: the transcode_threads == 0 check is left out.
try_resolve_accepts_zero(u) ==
    IF u.path = "missing"
    THEN [error |-> "FailedToCanonicalizePath", transcode_threads |-> 0]
    ELSE IF u.path = "not_utf8"
    THEN [error |-> "PathIsNotUtf8", transcode_threads |-> 0]
    ELSE [error |-> "none", transcode_threads |-> u.transcode_threads]

try_resolve(u) ==
    IF u.path = "missing"
    THEN [error |-> "FailedToCanonicalizePath", transcode_threads |-> 0]
    ELSE IF u.path = "not_utf8"
    THEN [error |-> "PathIsNotUtf8", transcode_threads |-> 0]
    ELSE IF u.transcode_threads = 0
    THEN [error |-> "ZeroTranscodeThreads", transcode_threads |-> 0]
    ELSE [error |-> "none", transcode_threads |-> u.transcode_threads]

\* The threads rayon gives a pool asked for 0 threads: one per processor.
AvailableParallelism == MaxThreads

\* ThreadPoolBuilder::new().num_threads(transcode_threads).build(): the
\* number of threads of the pool.
build_transcode_thread_pool(threads) ==
    IF threads = 0 THEN AvailableParallelism ELSE threads

----------------------------------------------------------------------------
(* State *)

VARIABLES
    command,           \* <<"all", 0>>, <<"library", l>> or <<"album", a>>
    unresolved,        \* the aggregated_library table of configuration.toml
    transcode_threads, \* config.aggregated_library.transcode_threads
    thread_pool,       \* the rayon pools the command has built, in order
    state,             \* TUITerminalBackend.state: the TerminalUIState
    next_queue_item_id, \* the ID the next QueueItem::new gives
    backend_call,      \* the last call on the terminal backend, its result
    issued,            \* the items queue_item_add has added, in call order,
                       \* each with whether its queue was cleared since
    backend,           \* the fields of the TUITerminalBackend itself
    render_pc,         \* where the render thread is
    terminal_lock,     \* holder of the Mutex around the tui Terminal
    state_lock,        \* holder of the Mutex around the TerminalUIState
    rendered,          \* what the last render pass drew
    caller,            \* the backend call the main thread is inside of
    stop_channel,      \* stop signals sent to the render thread, not yet read
    user_control,      \* the messages on the user-control channel
    main_pc,           \* where run_requested_cli_command is
    exit_code,         \* the exit code of the process (-1: it runs)
    sidecar,           \* per album: the saved snapshot on disk (an Option)
    album_files,       \* per album: the snapshot LibraryMeta::generate yields
    album_packets,     \* per album: its AlbumWorkPacket (the two caches)
    pc,                \* where the main thread is
    todo,              \* albums still to process, in processing order
    cur,               \* the album being processed (0: none)
    file_packets,      \* the FileWorkPackets (paths) of the running batch
    next_packet,       \* index of the packet the scope closure looks at next
    job,               \* per album and path: how far its packet / job is
    tx,                \* per album: the errors sent on the batch's channel
    lock,              \* holder of the file progress bar mutex (<<>>: free)
    collected,         \* per album: collected_thread_errors of its batch
    returned,          \* per album: what its batch returned
    result,            \* what the command returned
    save_calls,        \* per album: calls of save_fresh_meta in this run
    packet_count,      \* per album: packets get_work_packets gave (-1: none)
    needed,            \* per album: what needs_processing said at the scan
    sidecar_at_start,  \* the sidecar files when the run began
    last_call,         \* the last method call on a packet and what it returned
    library_packets,   \* cmd_transcode_all: the LibraryWorkPackets, as listed
    filtered_library_packets, \* the libraries and albums still to process
    processed,         \* the libraries entered and albums dispatched, in order
    filesystem,        \* what the file system holds at each configured path
    unresolved_configuration, \* the configuration as deserialized
    configuration,     \* what try_resolve returned for it
    classified         \* the last file path asked about and the answers

\* The command line, and the variables of the scan order of
\* cmd_transcode_all and of the configuration, which no step of a command's
\* run on the albums changes.
orderVars == <<library_packets, filtered_library_packets, processed>>

configurationVars ==
    <<filesystem, unresolved_configuration, configuration, classified>>

cliVars == <<command, orderVars, configurationVars>>

threadVars == <<backend, render_pc, terminal_lock, state_lock, rendered,
                caller, stop_channel, user_control, main_pc, exit_code>>

uiVars == <<state, next_queue_item_id, backend_call, issued, threadVars>>

vars == <<cliVars, unresolved, uiVars, thread_pool, transcode_threads,
          sidecar, album_files, album_packets, pc,
          todo, cur, file_packets, next_packet, job, tx, lock, collected,
          returned, result, save_calls, packet_count, needed,
          sidecar_at_start, last_call>>

\* The variables of a command's run on the albums and of the terminal.
programVars == <<command, unresolved, uiVars, thread_pool, transcode_threads,
                 sidecar, album_files, album_packets, pc,
                 todo, cur, file_packets, next_packet, job, tx, lock,
                 collected, returned, result, save_calls, packet_count,
                 needed, sidecar_at_start, last_call>>

runVars == <<cliVars, unresolved, uiVars, thread_pool, transcode_threads,
             pc, todo, cur, file_packets,
             next_packet, job, tx, lock, collected, returned, result,
             save_calls, packet_count, needed, sidecar_at_start>>

Commands == {<<"all", 0>>}
            \cup {<<"library", l>> : l \in Libraries}
            \cup {<<"album", a>> : a \in Albums}

\* The albums a command looks at.
AlbumsOf(cmd) ==
    CASE cmd[1] = "all" -> Albums
      [] cmd[1] = "library" -> {a \in Albums : LibraryOf(a) = cmd[2]}
      [] cmd[1] = "album" -> {cmd[2]}

Active == {"spawned", "processing", "processed_ok", "processed_err",
           "locked_ok", "locked_err"}
OnThread == Active \ {"spawned"}
Finished == {"finished_ok", "finished_err"}
Failed == {"processed_err", "locked_err", "finished_err", "name_err"}
JobStates == {"absent", "pending", "name_err"} \cup Active \cup Finished

\* The album directories a run starts from: no tracked file, one, or the
\* most, with a sidecar file that is missing or differs from the directory
\* (the album needs processing), or is up to date.
Canon(n) == [files |-> [p \in 1..n |-> "f1"]]
Other(n) == IF n = 0 THEN Canon(MaxFiles)
            ELSE [files |-> [p \in 1..n |-> IF p = 1 THEN "f2" ELSE "f1"]]
RunInputs ==
    UNION {{[saved |-> None, fresh |-> Canon(n)],
            [saved |-> Some(Other(n)), fresh |-> Canon(n)]} : n \in {0, 1, MaxFiles}}
    \cup {[saved |-> Some(Canon(n)), fresh |-> Canon(n)] : n \in {0, MaxFiles}}

\* last_call before any call: the method, whether the packet was newly
\* constructed, the disk as the call found it, and the value returned.
NoCall == [op |-> "none", new_packet |-> FALSE, disk_saved |-> None,
           disk_fresh |-> [files |-> <<>>], value |-> "none"]

\* The terminal backend before any call on it.
NoBackendCall == [op |-> "none"]

\* The tables of configuration.toml a run can find.
UnresolvedConfigurations ==
    [path : PathOutcomes, transcode_threads : {0, 1, MaxThreads}]

\* No terminal backend is used: its state stays as constructed.
\* TerminalUIState::new(): no queue, no progress indicator, an empty journal.
TerminalUIState_new ==
    [queue_state |-> None, progress |-> None, log_journal |-> <<>>]

\* TUITerminalBackend::new(): not set up, no log file, no render thread.
TUITerminalBackend_new ==
    [has_been_set_up |-> FALSE, log_file_output |-> FALSE]

\* The main thread is not inside a call on the backend.
Idle ==
    [pc |-> "idle", item_id |-> 0, was_ok |-> FALSE,
     before |-> TerminalUIState_new]

\* Nothing is listed, loaded or asked about yet.
NothingLoaded ==
    /\ library_packets = <<>>
    /\ filtered_library_packets = <<>>
    /\ processed = <<>>
    /\ filesystem = <<>>
    /\ unresolved_configuration = <<>>
    /\ configuration = <<>>
    /\ classified = <<>>

InitUi ==
    /\ state = TerminalUIState_new
    /\ next_queue_item_id = 0
    /\ backend_call = NoBackendCall
    /\ issued = <<>>
    /\ backend = TUITerminalBackend_new
    /\ render_pc = "not_started"
    /\ terminal_lock = "free"
    /\ state_lock = "free"
    /\ rendered = "nothing"
    /\ caller = Idle
    /\ stop_channel = 0
    /\ user_control = <<>>
    /\ main_pc = "main"
    /\ exit_code = -1

Init ==
    /\ command \in Commands
    /\ NothingLoaded
    /\ unresolved \in UnresolvedConfigurations
    /\ transcode_threads = 0
    /\ thread_pool = <<>>
    /\ InitUi
    /\ \E inp \in [Albums -> RunInputs] :
          /\ \A a \in Albums \ AlbumsOf(command) :
                inp[a] = [saved |-> None, fresh |-> Canon(0)]
          /\ sidecar = [a \in Albums |-> inp[a].saved]
          /\ album_files = [a \in Albums |-> inp[a].fresh]
    /\ sidecar_at_start = sidecar
    /\ album_packets = [a \in Albums |-> from_album_info]
    /\ pc = "config"
    /\ todo = <<>>
    /\ cur = 0
    /\ file_packets = <<>>
    /\ next_packet = 1
    /\ job = [a \in Albums |-> [p \in Paths |-> "absent"]]
    /\ tx = [a \in Albums |-> <<>>]
    /\ lock = <<>>
    /\ collected = [a \in Albums |-> <<>>]
    /\ returned = [a \in Albums |-> "none"]
    /\ result = "running"
    /\ save_calls = [a \in Albums |-> 0]
    /\ packet_count = [a \in Albums |-> -1]
    /\ needed = [a \in Albums |-> "unknown"]
    /\ last_call = NoCall

----------------------------------------------------------------------------
(* process_file_packets_in_threadpool: the pieces the commands rely on.    *)

\* if file_packets.len() == 0 { return Ok(()); }
EmptyBatch(packets) == Len(packets) = 0

\* Vec::from_iter(rx.try_iter())
CollectFirstOnly(channel) ==
    IF channel = <<>> THEN <<>> ELSE <<Head(channel)>>

Collect(channel) == channel

\* Ok(()) when nothing was collected, Err(collected_thread_errors) otherwise.
ProcessResultAlwaysOk(errors) == "Ok"

ProcessResult(errors) == IF Len(errors) = 0 THEN "Ok" ELSE "Err"

\* thread_pool.scope returns once its closure and every job spawned in it
\* have ended.
ScopeCompleteNoWait(a) == TRUE

ScopeCompleteOnceStarted(a) == \A p \in Paths : job[a][p] # "spawned"

ScopeComplete(a) == \A p \in Paths : job[a][p] \notin Active

\* Threads of the pool that are taken: one per job that has started and not
\* ended, and one for the scope closure while it runs.
Busy ==
    Cardinality({ap \in Albums \X Paths : job[ap[1]][ap[2]] \in OnThread})
    + (IF pc = "scope" THEN 1 ELSE 0)

----------------------------------------------------------------------------
(* The commands: what follows each step of the album loop.                 *)

\* match process_file_packets_in_threadpool(..) { Ok(()) => (),
\*     Err(errors) => return print_error_vector_and_return_err(errors) }
AfterBatchSkipsFailedAlbum(batch_result) ==
    IF batch_result = "Ok" THEN "save" ELSE "loop"

AfterBatchNeverSaves(batch_result) ==
    IF batch_result = "Ok" THEN "loop" ELSE "done"

AfterBatchSavesAnyway(batch_result) == "save"

AfterBatch(batch_result) == IF batch_result = "Ok" THEN "save" ELSE "done"

\* cmd_transcode_album: if file_packets.len() == 0 { ...; return Ok(()); }
AlbumUpToDateNever(cmd, packets) == FALSE

AlbumUpToDate(cmd, packets) == cmd[1] = "album" /\ Len(packets) = 0

\* LibraryWorkPacket::get_albums_in_need_of_processing: needs_processing of
\* every album packet of the libraries looked at.
get_albums_in_need_of_processing(cmd) ==
    [a \in AlbumsOf(cmd) |->
        needs_processing(album_packets[a], sidecar[a], album_files[a])]

\* The filtered albums in processing order (by library name, then title).
FilteredAlbums(cmd, scan) ==
    SelectSeq([a \in Albums |-> a],
              LAMBDA a : a \in AlbumsOf(cmd) /\ scan[a].value)

YesNo(b) == IF b THEN "yes" ELSE "no"

----------------------------------------------------------------------------
(* Main thread *)

\* main: get_configuration(&args)? before run_requested_cli_command. An
\* error of the resolution ends the process before any command runs.
LoadConfiguration ==
    /\ pc = "config"
    /\ LET r == try_resolve(unresolved)
       IN IF r.error = "none"
          THEN /\ transcode_threads' = r.transcode_threads
               /\ pc' = "start"
               /\ result' = result
          ELSE /\ transcode_threads' = transcode_threads
               /\ pc' = "done"
               /\ result' = r.error
    /\ UNCHANGED <<cliVars, unresolved, uiVars, thread_pool, sidecar,
                   album_files, album_packets, todo, cur, file_packets,
                   next_packet, job, tx, lock, collected, returned,
                   save_calls, packet_count, needed, sidecar_at_start,
                   last_call>>

\* cmd_transcode_all / cmd_transcode_library up to the album loop.
ScanLibraries ==
    /\ pc = "start"
    /\ command[1] \in {"all", "library"}
    /\ LET scan == get_albums_in_need_of_processing(command)
           filtered == FilteredAlbums(command, scan)
       IN /\ album_packets' = [a \in Albums |->
                IF a \in AlbumsOf(command) THEN scan[a].packet
                ELSE album_packets[a]]
          /\ needed' = [a \in Albums |->
                IF a \in AlbumsOf(command) THEN YesNo(scan[a].value)
                ELSE needed[a]]
          /\ todo' = filtered
          /\ IF Len(filtered) = 0
             THEN /\ pc' = "done" /\ result' = "Ok"
                  /\ thread_pool' = thread_pool
             ELSE /\ pc' = "loop" /\ result' = result
                  /\ thread_pool' = Append(thread_pool,
                        build_transcode_thread_pool(transcode_threads))
    /\ UNCHANGED <<cliVars, unresolved, uiVars,
                   transcode_threads, sidecar, album_files, cur,
                   file_packets, next_packet, job, tx, lock, collected,
                   returned, save_calls, packet_count, sidecar_at_start,
                   last_call>>

\* cmd_transcode_album up to get_work_packets.
ScanAlbum ==
    /\ pc = "start"
    /\ command[1] = "album"
    /\ album_packets' = [album_packets EXCEPT ![command[2]] = from_album_info]
    /\ todo' = <<command[2]>>
    /\ pc' = "loop"
    /\ UNCHANGED <<cliVars, unresolved, uiVars, thread_pool,
                   transcode_threads, sidecar, album_files, cur,
                   file_packets, next_packet, job, tx, lock, collected,
                   returned, result, save_calls, packet_count, needed,
                   sidecar_at_start, last_call>>

\* Any of the ?-propagated errors before the album loop.
ScanFails ==
    /\ pc = "start"
    /\ pc' = "done"
    /\ result' = "Err"
    /\ UNCHANGED <<cliVars, unresolved, uiVars, thread_pool,
                   transcode_threads, sidecar, album_files,
                   album_packets, todo, cur, file_packets, next_packet, job,
                   tx, lock, collected, returned, save_calls, packet_count,
                   needed, sidecar_at_start, last_call>>

\* The head of the album loop: album_packet.get_work_packets(config)?
GetWorkPackets ==
    /\ pc = "loop"
    /\ todo # <<>>
    /\ LET a == Head(todo)
           g == get_work_packets(album_packets[a], sidecar[a], album_files[a])
       IN /\ cur' = a
          /\ todo' = Tail(todo)
          /\ album_packets' = [album_packets EXCEPT ![a] = g.packet]
          /\ file_packets' = g.value
          /\ packet_count' = [packet_count EXCEPT ![a] = Len(g.value)]
          /\ job' = [job EXCEPT ![a] = [p \in Paths |->
                IF \E i \in 1..Len(g.value) : g.value[i] = p
                THEN "pending" ELSE "absent"]]
          /\ IF AlbumUpToDate(command, g.value)
             THEN pc' = "done" /\ result' = "Ok"
             ELSE pc' = "batch" /\ result' = result
          \* cmd_transcode_album builds its pool after the packets.
          /\ thread_pool' =
                IF command[1] = "album" /\ ~AlbumUpToDate(command, g.value)
                THEN Append(thread_pool,
                            build_transcode_thread_pool(transcode_threads))
                ELSE thread_pool
    /\ UNCHANGED <<cliVars, unresolved, uiVars,
                   transcode_threads, sidecar, album_files,
                   next_packet, tx, lock, collected, returned, save_calls,
                   needed, sidecar_at_start, last_call>>

GetWorkPacketsFails ==
    /\ pc = "loop"
    /\ todo # <<>>
    /\ pc' = "done"
    /\ result' = "Err"
    /\ UNCHANGED <<cliVars, unresolved, uiVars, thread_pool,
                   transcode_threads, sidecar, album_files,
                   album_packets, todo, cur, file_packets, next_packet, job,
                   tx, lock, collected, returned, save_calls, packet_count,
                   needed, sidecar_at_start, last_call>>

\* The album loop has run out: the command returns Ok(()).
Finish ==
    /\ pc = "loop"
    /\ todo = <<>>
    /\ pc' = "done"
    /\ result' = "Ok"
    /\ UNCHANGED <<cliVars, unresolved, uiVars, thread_pool,
                   transcode_threads, sidecar, album_files,
                   album_packets, todo, cur, file_packets, next_packet, job,
                   tx, lock, collected, returned, save_calls, packet_count,
                   needed, sidecar_at_start, last_call>>

\* process_file_packets_in_threadpool is entered.
EnterBatch ==
    /\ pc = "batch"
    /\ IF EmptyBatch(file_packets)
       THEN /\ returned' = [returned EXCEPT ![cur] = "Ok"]
            /\ pc' = AfterBatch("Ok")
            /\ UNCHANGED <<next_packet, tx>>
       ELSE /\ pc' = "scope"
            /\ next_packet' = 1
            /\ tx' = [tx EXCEPT ![cur] = <<>>]
            /\ UNCHANGED returned
    /\ UNCHANGED <<cliVars, unresolved, uiVars, thread_pool,
                   transcode_threads, sidecar, album_files,
                   album_packets, todo, cur, file_packets, job, lock,
                   collected, result, save_calls, packet_count, needed,
                   sidecar_at_start, last_call>>

\* The scope closure: get_file_name is Ok and the job is spawned.
ScopeSpawn ==
    /\ pc = "scope"
    /\ LET p == file_packets[next_packet]
       IN job' = [job EXCEPT ![cur][p] = "spawned"]
    /\ next_packet' = next_packet + 1
    /\ pc' = IF next_packet = Len(file_packets) THEN "join" ELSE "scope"
    /\ UNCHANGED <<cliVars, unresolved, uiVars, thread_pool,
                   transcode_threads, sidecar, album_files,
                   album_packets, todo, cur, file_packets, tx, lock, collected,
                   returned, result, save_calls, packet_count, needed,
                   sidecar_at_start, last_call>>

\* The scope closure: get_file_name is Err, the error is sent and the
\* closure returns.
ScopeNameError ==
    /\ pc = "scope"
    /\ LET p == file_packets[next_packet]
       IN /\ job' = [job EXCEPT ![cur][p] = "name_err"]
          /\ tx' = [tx EXCEPT ![cur] = Append(@, <<p, "name">>)]
    /\ pc' = "join"
    /\ UNCHANGED <<cliVars, unresolved, uiVars, thread_pool,
                   transcode_threads, sidecar, album_files,
                   album_packets, todo, cur, file_packets, next_packet, lock,
                   collected, returned, result, save_calls, packet_count,
                   needed, sidecar_at_start, last_call>>

\* The scope has ended; the channel is drained and the batch returns.
Join ==
    /\ pc = "join"
    /\ ScopeComplete(cur)
    /\ LET errors == Collect(tx[cur])
           r == ProcessResult(errors)
       IN /\ collected' = [collected EXCEPT ![cur] = errors]
          /\ returned' = [returned EXCEPT ![cur] = r]
          /\ pc' = AfterBatch(r)
          /\ result' = IF AfterBatch(r) = "done" THEN "Err" ELSE result
    /\ UNCHANGED <<cliVars, unresolved, uiVars, thread_pool,
                   transcode_threads, sidecar, album_files,
                   album_packets, todo, cur, file_packets, next_packet, job,
                   tx, lock, save_calls, packet_count, needed,
                   sidecar_at_start, last_call>>

\* album_packet.save_fresh_meta(config, true)? returning Ok.
SaveFreshMeta ==
    /\ pc = "save"
    /\ LET s == save_fresh_meta(album_packets[cur], album_files[cur])
       IN /\ sidecar' = [sidecar EXCEPT ![cur] = s.value]
          /\ album_packets' = [album_packets EXCEPT ![cur] = s.packet]
    /\ save_calls' = [save_calls EXCEPT ![cur] = @ + 1]
    /\ pc' = "loop"
    /\ UNCHANGED <<cliVars, unresolved, uiVars, thread_pool,
                   transcode_threads, album_files, todo, cur,
                   file_packets, next_packet, job, tx, lock, collected,
                   returned, result, packet_count, needed, sidecar_at_start,
                   last_call>>

\* album_packet.save_fresh_meta(config, true)? returning Err: nothing is
\* written and the command returns the error.
SaveFreshMetaFails ==
    /\ pc = "save"
    /\ save_calls' = [save_calls EXCEPT ![cur] = @ + 1]
    /\ pc' = "done"
    /\ result' = "Err"
    /\ UNCHANGED <<cliVars, unresolved, uiVars, thread_pool,
                   transcode_threads, sidecar, album_files,
                   album_packets, todo, cur, file_packets, next_packet, job,
                   tx, lock, collected, returned, packet_count, needed,
                   sidecar_at_start, last_call>>

\* The command is run again on the file system as the first run left it:
\* a newly constructed AlbumWorkPacket of the album is asked whether the
\* album needs processing and for its file packets.
SecondRun(a) ==
    /\ pc = "done"
    /\ result \in {"Ok", "Err"}
    /\ last_call.op = "none"
    /\ a \in AlbumsOf(command)
    /\ LET n == needs_processing(from_album_info, sidecar[a], album_files[a])
           g == get_work_packets(from_album_info, sidecar[a], album_files[a])
       IN last_call' = [op |-> "second_run", album |-> a,
                        needs_processing |-> YesNo(n.value),
                        packets |-> Len(g.value)]
    /\ UNCHANGED <<sidecar, album_files, album_packets, runVars>>

----------------------------------------------------------------------------
(* Pool threads: the job spawned for one file packet.                      *)

workerVars == <<cliVars, unresolved, uiVars, thread_pool,
                transcode_threads, sidecar, album_files,
                album_packets, pc, todo, cur, file_packets, next_packet,
                collected, returned, result, save_calls, packet_count, needed,
                sidecar_at_start, last_call>>

\* The threads of the pool the batch runs in.
current_num_threads == thread_pool[Len(thread_pool)]

\* A plausible slip: every spawned job gets a thread of its own at once.
StartJobOnNewThread(a, p) ==
    /\ job[a][p] = "spawned"
    /\ job' = [job EXCEPT ![a][p] = "processing"]
    /\ UNCHANGED <<workerVars, tx, lock>>

\* A plausible slip: a job that finds an error already sent gives up
\* without calling process().
StartJobUnlessSiblingFailed(a, p) ==
    /\ job[a][p] = "spawned"
    /\ Busy < current_num_threads
    /\ job' = [job EXCEPT ![a][p] =
                  IF tx[a] = <<>> THEN "processing" ELSE "finished_ok"]
    /\ UNCHANGED <<workerVars, tx, lock>>

\* A plausible slip: the job takes the progress bar's lock before it calls
\* process().
StartJobHoldingLock(a, p) ==
    /\ job[a][p] = "spawned"
    /\ Busy < current_num_threads
    /\ lock = <<>>
    /\ lock' = <<a, p>>
    /\ job' = [job EXCEPT ![a][p] = "processing"]
    /\ UNCHANGED <<workerVars, tx>>

\* A free pool thread takes the job and calls file_packet.process(config).
StartJob(a, p) ==
    /\ job[a][p] = "spawned"
    /\ Busy < current_num_threads
    /\ job' = [job EXCEPT ![a][p] = "processing"]
    /\ UNCHANGED <<workerVars, tx, lock>>

\* process() returns Ok or Err.
ProcessReturns(a, p, ok) ==
    /\ job[a][p] = "processing"
    /\ job' = [job EXCEPT ![a][p] = IF ok THEN "processed_ok" ELSE "processed_err"]
    /\ UNCHANGED <<workerVars, tx, lock>>

\* thread_progress_bar.lock().unwrap(); inc(1); the file name is shown.
LockProgressBar(a, p) ==
    /\ job[a][p] \in {"processed_ok", "processed_err"}
    /\ lock = <<>>
    /\ lock' = <<a, p>>
    /\ job' = [job EXCEPT ![a][p] =
                  IF @ = "processed_ok" THEN "locked_ok" ELSE "locked_err"]
    /\ UNCHANGED <<workerVars, tx>>

\* A plausible slip: the job ends and the lock stays taken.
ReportKeepsLock(a, p) ==
    /\ job[a][p] \in {"locked_ok", "locked_err"}
    /\ tx' = [tx EXCEPT ![a] = IF job[a][p] = "locked_err"
                                 THEN Append(@, <<p, "process">>) ELSE @]
    /\ job' = [job EXCEPT ![a][p] =
                  IF @ = "locked_ok" THEN "finished_ok" ELSE "finished_err"]
    /\ lock' = lock
    /\ UNCHANGED workerVars

\* An error is sent on the channel; the job ends and its guard is dropped.
Report(a, p) ==
    /\ job[a][p] \in {"locked_ok", "locked_err"}
    /\ tx' = [tx EXCEPT ![a] = IF job[a][p] = "locked_err"
                                 THEN Append(@, <<p, "process">>) ELSE @]
    /\ job' = [job EXCEPT ![a][p] =
                  IF @ = "locked_ok" THEN "finished_ok" ELSE "finished_err"]
    /\ lock' = <<>>
    /\ UNCHANGED workerVars

Worker ==
    \E a \in Albums, p \in Paths :
        \/ StartJob(a, p)
        \/ \E ok \in BOOLEAN : ProcessReturns(a, p, ok)
        \/ LockProgressBar(a, p)
        \/ Report(a, p)

Main ==
    \/ LoadConfiguration
    \/ ScanLibraries
    \/ ScanAlbum
    \/ ScanFails
    \/ GetWorkPackets
    \/ GetWorkPacketsFails
    \/ Finish
    \/ EnterBatch
    \/ ScopeSpawn
    \/ ScopeNameError
    \/ Join
    \/ SaveFreshMeta
    \/ SaveFreshMetaFails
    \/ \E a \in Albums : SecondRun(a)

Next == Main \/ Worker

Spec == Init /\ [][Next]_vars

\* The operating system schedules every thread that can run, and every
\* process() call returns.
FairSpec == Spec /\ WF_vars(Next)

(* SpecBatch: a command on a library that was never transcoded, whose      *)
(* albums have MaxFiles files each; the main thread and every pool thread  *)
(* that can take a step takes one in the end, and process() returns.       *)
InitBatch ==
    /\ Init
    /\ unresolved = [path |-> "valid", transcode_threads |-> MaxThreads]
    /\ sidecar = [a \in Albums |-> None]
    /\ album_files = [a \in Albums |->
          IF a \in AlbumsOf(command) THEN Canon(MaxFiles) ELSE Canon(0)]

SpecBatch ==
    /\ InitBatch
    /\ [][Next]_vars
    /\ WF_vars(Main)
    /\ \A a \in Albums, p \in Paths :
          /\ WF_vars(StartJob(a, p))
          /\ WF_vars(\E ok \in BOOLEAN : ProcessReturns(a, p, ok))
          /\ WF_vars(LockProgressBar(a, p))
          /\ WF_vars(Report(a, p))

----------------------------------------------------------------------------
(* SpecAlbum: method calls, in any order, on the AlbumWorkPacket of album  *)
(* 1, and the construction of a new packet for the same album directory.   *)

TheAlbum == 1

InitAlbum ==
    /\ command = <<"album", TheAlbum>>
    /\ NothingLoaded
    /\ unresolved = [path |-> "valid", transcode_threads |-> 1]
    /\ transcode_threads = 1
    /\ thread_pool = <<>>
    /\ InitUi
    /\ \E s \in {None} \cup {Some(m) : m \in LibraryMetas}, f \in LibraryMetas :
          /\ sidecar = [a \in Albums |-> IF a = TheAlbum THEN s ELSE None]
          /\ album_files = [a \in Albums |->
                               IF a = TheAlbum THEN f ELSE [files |-> <<>>]]
    /\ sidecar_at_start = sidecar
    /\ album_packets = [a \in Albums |-> from_album_info]
    /\ pc = "calls"
    /\ todo = <<>>
    /\ cur = 0
    /\ file_packets = <<>>
    /\ next_packet = 1
    /\ job = [a \in Albums |-> [p \in Paths |-> "absent"]]
    /\ tx = [a \in Albums |-> <<>>]
    /\ lock = <<>>
    /\ collected = [a \in Albums |-> <<>>]
    /\ returned = [a \in Albums |-> "none"]
    /\ result = "running"
    /\ save_calls = [a \in Albums |-> 0]
    /\ packet_count = [a \in Albums |-> -1]
    /\ needed = [a \in Albums |-> "unknown"]
    /\ last_call = NoCall

IsNew(packet) == packet = from_album_info

Called(op, value) ==
    [op |-> op, new_packet |-> IsNew(album_packets[TheAlbum]),
     disk_saved |-> sidecar[TheAlbum], disk_fresh |-> album_files[TheAlbum],
     value |-> value]

\* AlbumWorkPacket::from_album_info for the same directory (a later run).
NewPacket ==
    /\ album_packets[TheAlbum] # from_album_info
    /\ album_packets' = [album_packets EXCEPT ![TheAlbum] = from_album_info]
    /\ last_call' = Called("from_album_info", "none")
    /\ UNCHANGED <<sidecar, album_files, runVars>>

CallNeedsProcessing ==
    /\ LET r == needs_processing(album_packets[TheAlbum], sidecar[TheAlbum],
                                 album_files[TheAlbum])
       IN /\ album_packets' = [album_packets EXCEPT ![TheAlbum] = r.packet]
          /\ last_call' = Called("needs_processing", YesNo(r.value))
    /\ UNCHANGED <<sidecar, album_files, runVars>>

CallGetWorkPackets ==
    /\ LET r == get_work_packets(album_packets[TheAlbum], sidecar[TheAlbum],
                                 album_files[TheAlbum])
       IN /\ album_packets' = [album_packets EXCEPT ![TheAlbum] = r.packet]
          /\ last_call' = Called("get_work_packets", r.value)
    /\ UNCHANGED <<sidecar, album_files, runVars>>

CallSaveFreshMeta ==
    /\ LET r == save_fresh_meta(album_packets[TheAlbum], album_files[TheAlbum])
       IN /\ album_packets' = [album_packets EXCEPT ![TheAlbum] = r.packet]
          /\ sidecar' = [sidecar EXCEPT ![TheAlbum] = r.value]
    /\ last_call' = Called("save_fresh_meta", "Ok")
    /\ UNCHANGED <<album_files, runVars>>

NextAlbum ==
    \/ NewPacket
    \/ CallNeedsProcessing
    \/ CallGetWorkPackets
    \/ CallSaveFreshMeta

SpecAlbum == InitAlbum /\ [][NextAlbum]_vars

----------------------------------------------------------------------------
(* SpecAlbumDisk: SpecAlbum on the album directories a run starts from,    *)
(* with tracked files of the directory changing between the calls.         *)

\* The snapshots LibraryMeta::generate yields as the directory changes.
DiskMetas == {Canon(n) : n \in {0, 1, MaxFiles}}
             \cup {Other(n) : n \in {1, MaxFiles}}

InitAlbumDisk ==
    /\ InitAlbum
    /\ [saved |-> sidecar[TheAlbum], fresh |-> album_files[TheAlbum]]
          \in RunInputs

\* Tracked files of the album directory are added, removed or modified.
FilesChange ==
    /\ \E f \in DiskMetas :
          /\ f # album_files[TheAlbum]
          /\ album_files' = [album_files EXCEPT ![TheAlbum] = f]
    /\ last_call' = [NoCall EXCEPT !.op = "files_change"]
    /\ UNCHANGED <<sidecar, album_packets, runVars>>

NextAlbumDisk ==
    \/ NewPacket
    \/ CallNeedsProcessing
    \/ CallGetWorkPackets
    \/ CallSaveFreshMeta
    \/ FilesChange

SpecAlbumDisk == InitAlbumDisk /\ [][NextAlbumDisk]_vars

----------------------------------------------------------------------------
(* The queue of the terminal backend (TUITerminalBackend as a              *)
(* TranscodeBackend).  QueueState and QueueItem are records; a function of *)
(* the backend is an operator from the TerminalUIState (and its inputs) to *)
(* the result returned and the TerminalUIState afterwards.                 *)

QueueTypes == {"Library", "Album", "File"}
QueueItemIDs == 0..(MaxQueueItems - 1)

\* QueueState::default()
QueueState_default ==
    [library_items |-> <<>>, album_items |-> <<>>, file_items |-> <<>>]

\* QueueItem::new(item, item_type) with the ID it is given.
QueueItem_new(id, item_type) ==
    [id |-> id, item_type |-> item_type, is_active |-> FALSE,
     finished_state |-> None]

\* QueueItem::get_state
get_state(item) ==
    IF ~is_none(item.finished_state) THEN "Finished"
    ELSE IF item.is_active THEN "InProgress"
    ELSE "Pending"

\* QueueItem::set_finished_state
set_finished_state(item, finished_state) ==
    [item EXCEPT !.finished_state = Some(finished_state)]

\* QueueState::add_item
add_item(queue, item) ==
    CASE item.item_type = "Library" ->
            [queue EXCEPT !.library_items = Append(@, item)]
      [] item.item_type = "Album" ->
            [queue EXCEPT !.album_items = Append(@, item)]
      [] item.item_type = "File" ->
            [queue EXCEPT !.file_items = Append(@, item)]

AllItems(queue) == queue.library_items \o queue.album_items \o queue.file_items

\* QueueState::find_item_by_id
find_item_by_id(queue, item_id) ==
    LET found == SelectSeq(AllItems(queue), LAMBDA item : item.id = item_id)
    IN IF found = <<>> THEN None ELSE Some(found[1])

\* QueueState::remove_item_by_id: an error when no item has the ID.
remove_item_by_id(queue, item_id) ==
    LET Keep(items) == SelectSeq(items, LAMBDA item : item.id # item_id)
    IN IF is_none(find_item_by_id(queue, item_id))
       THEN [result |-> "Err", queue |-> queue]
       ELSE [result |-> "Ok",
             queue |-> [library_items |-> Keep(queue.library_items),
                        album_items |-> Keep(queue.album_items),
                        file_items |-> Keep(queue.file_items)]]

\* QueueState::clear_queue_by_type
clear_queue_by_type(queue, queue_type) ==
    CASE queue_type = "Library" -> [queue EXCEPT !.library_items = <<>>]
      [] queue_type = "Album" -> [queue EXCEPT !.album_items = <<>>]
      [] queue_type = "File" -> [queue EXCEPT !.file_items = <<>>]

\* The items of one queue type.
ItemsOfType(queue, queue_type) ==
    CASE queue_type = "Library" -> queue.library_items
      [] queue_type = "Album" -> queue.album_items
      [] queue_type = "File" -> queue.file_items

\* ProgressState::default()
ProgressState_default == [current |-> 0, total |-> 0]

\* The closures given to queue_item_modify: one sets the item's activity
\* flag, one clears it.
ItemFunctions == {"set_active", "clear_active"}

CallFunction(function, item) ==
    [item EXCEPT !.is_active = (function = "set_active")]

\* The queue after a write through the &mut QueueItem find_item_by_id gave.
WriteItem(queue, new_item) ==
    LET Put(items) == [i \in 1..Len(items) |->
            IF items[i].id = new_item.id THEN new_item ELSE items[i]]
    IN [library_items |-> Put(queue.library_items),
        album_items |-> Put(queue.album_items),
        file_items |-> Put(queue.file_items)]

queue_begin(ui) ==
    [result |-> "Ok", state |-> [ui EXCEPT !.queue_state = Some(QueueState_default)]]

queue_end(ui) ==
    [result |-> "Ok", state |-> [ui EXCEPT !.queue_state = None]]

\* A plausible slip: the item is numbered by its position in the queue.
queue_item_add_numbers_by_position(ui, new_id, item_type) ==
    IF is_none(ui.queue_state)
    THEN [result |-> "Err", state |-> ui, id |-> new_id]
    ELSE LET position == Len(AllItems(unwrap(ui.queue_state)))
         IN [result |-> "Ok", id |-> position,
             state |-> [ui EXCEPT !.queue_state =
                 Some(add_item(unwrap(@), QueueItem_new(position, item_type)))]]

queue_item_add(ui, new_id, item_type) ==
    IF is_none(ui.queue_state)
    THEN [result |-> "Err", state |-> ui, id |-> new_id]
    ELSE [result |-> "Ok", id |-> new_id,
          state |-> [ui EXCEPT !.queue_state =
              Some(add_item(unwrap(@), QueueItem_new(new_id, item_type)))]]

queue_item_start(ui, item_id) ==
    IF is_none(ui.queue_state)
    THEN [result |-> "Err", state |-> ui]
    ELSE LET queue == unwrap(ui.queue_state)
             target_item == find_item_by_id(queue, item_id)
         IN IF ~is_none(target_item)
            THEN [result |-> "Ok",
                  state |-> [ui EXCEPT !.queue_state = Some(WriteItem(queue,
                      [unwrap(target_item) EXCEPT !.is_active = TRUE]))]]
            ELSE [result |-> "Err", state |-> ui]

\* A plausible slip: only an item that was started can be finished.
queue_item_finish_guarded(ui, item_id, was_ok) ==
    IF is_none(ui.queue_state)
    THEN [result |-> "Err", state |-> ui]
    ELSE LET queue == unwrap(ui.queue_state)
             target_item == find_item_by_id(queue, item_id)
         IN IF ~is_none(target_item) /\ unwrap(target_item).is_active
            THEN [result |-> "Ok",
                  state |-> [ui EXCEPT !.queue_state = Some(WriteItem(queue,
                      set_finished_state(
                          [unwrap(target_item) EXCEPT !.is_active = FALSE],
                          [is_ok |-> was_ok])))]]
            ELSE [result |-> "Err", state |-> ui]

queue_item_finish(ui, item_id, was_ok) ==
    IF is_none(ui.queue_state)
    THEN [result |-> "Err", state |-> ui]
    ELSE LET queue == unwrap(ui.queue_state)
             target_item == find_item_by_id(queue, item_id)
         IN IF ~is_none(target_item)
            THEN [result |-> "Ok",
                  state |-> [ui EXCEPT !.queue_state = Some(WriteItem(queue,
                      set_finished_state(
                          [unwrap(target_item) EXCEPT !.is_active = FALSE],
                          [is_ok |-> was_ok])))]]
            ELSE [result |-> "Err", state |-> ui]

\* A plausible slip: a missing item is passed over in silence.
queue_item_modify_skips_missing(ui, item_id, function) ==
    IF is_none(ui.queue_state)
    THEN [result |-> "Err", state |-> ui]
    ELSE LET queue == unwrap(ui.queue_state)
             queue_item == find_item_by_id(queue, item_id)
         IN IF is_none(queue_item)
            THEN [result |-> "Ok", state |-> ui]
            ELSE [result |-> "Ok",
                  state |-> [ui EXCEPT !.queue_state = Some(WriteItem(queue,
                      CallFunction(function, unwrap(queue_item))))]]

queue_item_modify(ui, item_id, function) ==
    IF is_none(ui.queue_state)
    THEN [result |-> "Err", state |-> ui]
    ELSE LET queue == unwrap(ui.queue_state)
             queue_item == find_item_by_id(queue, item_id)
         IN IF is_none(queue_item)
            THEN [result |-> "Err", state |-> ui]
            ELSE [result |-> "Ok",
                  state |-> [ui EXCEPT !.queue_state = Some(WriteItem(queue,
                      CallFunction(function, unwrap(queue_item))))]]

queue_item_remove(ui, item_id) ==
    IF is_none(ui.queue_state)
    THEN [result |-> "Err", state |-> ui]
    ELSE LET r == remove_item_by_id(unwrap(ui.queue_state), item_id)
         IN [result |-> r.result,
             state |-> [ui EXCEPT !.queue_state = Some(r.queue)]]

\* A plausible slip: the clear empties all three queues.
queue_clear_all_types(ui, queue_type) ==
    IF ~is_none(ui.queue_state)
    THEN [result |-> "Ok",
          state |-> [ui EXCEPT !.queue_state = Some(QueueState_default)]]
    ELSE [result |-> "Err", state |-> ui]

queue_clear(ui, queue_type) ==
    IF ~is_none(ui.queue_state)
    THEN [result |-> "Ok",
          state |-> [ui EXCEPT !.queue_state =
              Some(clear_queue_by_type(unwrap(@), queue_type))]]
    ELSE [result |-> "Err", state |-> ui]

progress_begin(ui) ==
    [result |-> "Ok", state |-> [ui EXCEPT !.progress = Some(ProgressState_default)]]

progress_end(ui) ==
    [result |-> "Ok", state |-> [ui EXCEPT !.progress = None]]

\* A plausible slip: setting the total of a disabled indicator enables it.
progress_set_total_enables(ui, total) ==
    IF is_none(ui.progress)
    THEN [result |-> "Ok",
          state |-> [ui EXCEPT !.progress =
              Some([ProgressState_default EXCEPT !.total = total])]]
    ELSE [result |-> "Ok",
          state |-> [ui EXCEPT !.progress =
              Some([unwrap(@) EXCEPT !.total = total])]]

progress_set_total(ui, total) ==
    IF is_none(ui.progress)
    THEN [result |-> "Err", state |-> ui]
    ELSE [result |-> "Ok",
          state |-> [ui EXCEPT !.progress =
              Some([unwrap(@) EXCEPT !.total = total])]]

progress_set_current(ui, current) ==
    IF is_none(ui.progress)
    THEN [result |-> "Err", state |-> ui]
    ELSE [result |-> "Ok",
          state |-> [ui EXCEPT !.progress =
              Some([unwrap(@) EXCEPT !.current = current])]]

\* trim_log_journal: past the limit, drain(count - LOG_JOURNAL_MAX_LINES..)
\* drops every entry from that index to the back.
LOG_JOURNAL_MAX_LINES == 20

trim_log_journal(ui) ==
    LET current_log_count == Len(ui.log_journal)
    IN IF current_log_count > LOG_JOURNAL_MAX_LINES
       THEN [ui EXCEPT !.log_journal =
                SubSeq(@, 1, current_log_count - LOG_JOURNAL_MAX_LINES)]
       ELSE ui

\* log_newline: push_front of the line, then the trim.
log_newline(ui) ==
    trim_log_journal([ui EXCEPT !.log_journal = <<"newline">> \o @])

\* log_println: every line of the content is pushed to the front, first
\* line first, then the trim.
RECURSIVE push_front_all(_, _)
push_front_all(journal, lines) ==
    IF lines = <<>> THEN journal
    ELSE push_front_all(<<Head(lines)>> \o journal, Tail(lines))

log_println(ui, lines) ==
    trim_log_journal([ui EXCEPT !.log_journal = push_front_all(@, lines)])

----------------------------------------------------------------------------
(* SpecQueue: calls, in any order and with any ID, on the queue functions  *)
(* of one terminal backend whose items all finish well; the progress       *)
(* indicator may be begun. SpecProgress below has the failed items, the    *)
(* progress setters and the log.                                           *)

transcodeVars == <<cliVars, unresolved, thread_pool, transcode_threads,
                   sidecar, album_files, album_packets, pc, todo, cur,
                   file_packets, next_packet, job, tx, lock, collected,
                   returned, result, save_calls, packet_count, needed,
                   sidecar_at_start, last_call>>

\* No command runs; the backend is as TUITerminalBackend::new made it.
InitQueue ==
    /\ InitAlbum
    /\ sidecar[TheAlbum] = None
    /\ album_files[TheAlbum] = [files |-> <<>>]

\* What the call finds: the queue disabled, no item of that ID, or the
\* state of the item.
Found(ui, item_id) ==
    IF is_none(ui.queue_state) THEN "disabled"
    ELSE IF is_none(find_item_by_id(unwrap(ui.queue_state), item_id))
    THEN "absent"
    ELSE get_state(unwrap(find_item_by_id(unwrap(ui.queue_state), item_id)))

BackendCalled(op, item_id, was_ok, r) ==
    [op |-> op, item_id |-> item_id, was_ok |-> was_ok, result |-> r.result,
     found |-> Found(state, item_id), arg |-> "none"]

\* A call that takes a queue type, a closure or a number.
BackendCalledWith(op, item_id, arg, r) ==
    [BackendCalled(op, item_id, FALSE, r) EXCEPT !.arg = arg]

QueueBegin ==
    /\ LET r == queue_begin(state)
       IN /\ state' = r.state
          /\ backend_call' = BackendCalled("queue_begin", 0, FALSE, r)
    /\ UNCHANGED <<next_queue_item_id, issued, threadVars, transcodeVars>>

QueueEnd ==
    /\ LET r == queue_end(state)
       IN /\ state' = r.state
          /\ backend_call' = BackendCalled("queue_end", 0, FALSE, r)
    /\ UNCHANGED <<next_queue_item_id, issued, threadVars, transcodeVars>>

QueueItemAdd(item_type) ==
    /\ next_queue_item_id < MaxQueueItems
    /\ LET r == queue_item_add(state, next_queue_item_id, item_type)
       IN /\ state' = r.state
          /\ backend_call' =
                BackendCalledWith("queue_item_add", r.id, item_type, r)
          /\ next_queue_item_id' =
                IF r.result = "Ok" THEN next_queue_item_id + 1
                ELSE next_queue_item_id
          /\ issued' =
                IF r.result = "Ok"
                THEN Append(issued, [id |-> r.id, item_type |-> item_type,
                                     cleared |-> FALSE])
                ELSE issued
    /\ UNCHANGED <<threadVars, transcodeVars>>

QueueItemStart(item_id) ==
    /\ LET r == queue_item_start(state, item_id)
       IN /\ state' = r.state
          /\ backend_call' = BackendCalled("queue_item_start", item_id, FALSE, r)
    /\ UNCHANGED <<next_queue_item_id, issued, threadVars, transcodeVars>>

QueueItemFinish(item_id, was_ok) ==
    /\ LET r == queue_item_finish(state, item_id, was_ok)
       IN /\ state' = r.state
          /\ backend_call' =
                BackendCalled("queue_item_finish", item_id, was_ok, r)
    /\ UNCHANGED <<next_queue_item_id, issued, threadVars, transcodeVars>>

QueueItemModify(item_id, function) ==
    /\ LET r == queue_item_modify(state, item_id, function)
       IN /\ state' = r.state
          /\ backend_call' =
                BackendCalledWith("queue_item_modify", item_id, function, r)
    /\ UNCHANGED <<next_queue_item_id, issued, threadVars, transcodeVars>>

QueueItemRemove(item_id) ==
    /\ LET r == queue_item_remove(state, item_id)
       IN /\ state' = r.state
          /\ backend_call' =
                BackendCalled("queue_item_remove", item_id, FALSE, r)
    /\ UNCHANGED <<next_queue_item_id, issued, threadVars, transcodeVars>>

QueueClear(queue_type) ==
    /\ LET r == queue_clear(state, queue_type)
       IN /\ state' = r.state
          /\ backend_call' = BackendCalledWith("queue_clear", 0, queue_type, r)
          /\ issued' =
                [n \in DOMAIN issued |->
                    IF r.result = "Ok" /\ issued[n].item_type = queue_type
                    THEN [issued[n] EXCEPT !.cleared = TRUE]
                    ELSE issued[n]]
    /\ UNCHANGED <<next_queue_item_id, threadVars, transcodeVars>>

ProgressBegin ==
    /\ LET r == progress_begin(state)
       IN /\ state' = r.state
          /\ backend_call' = BackendCalled("progress_begin", 0, FALSE, r)
    /\ UNCHANGED <<next_queue_item_id, issued, threadVars, transcodeVars>>

ProgressEnd ==
    /\ LET r == progress_end(state)
       IN /\ state' = r.state
          /\ backend_call' = BackendCalled("progress_end", 0, FALSE, r)
    /\ UNCHANGED <<next_queue_item_id, issued, threadVars, transcodeVars>>

\* The totals and positions the callers report: nothing, or every item.
ProgressValues == {0, MaxQueueItems}

ProgressSetTotal(total) ==
    /\ LET r == progress_set_total(state, total)
       IN /\ state' = r.state
          /\ backend_call' = BackendCalled("progress_set_total", total, FALSE, r)
    /\ UNCHANGED <<next_queue_item_id, issued, threadVars, transcodeVars>>

ProgressSetCurrent(current) ==
    /\ LET r == progress_set_current(state, current)
       IN /\ state' = r.state
          /\ backend_call' =
                BackendCalled("progress_set_current", current, FALSE, r)
    /\ UNCHANGED <<next_queue_item_id, issued, threadVars, transcodeVars>>

\* The first line of the run is logged.
LogNewline ==
    /\ state.log_journal = <<>>
    /\ state' = log_newline(state)
    /\ backend_call' = [op |-> "log_newline"]
    /\ UNCHANGED <<next_queue_item_id, issued, threadVars, transcodeVars>>

NextQueue ==
    \/ QueueBegin
    \/ QueueEnd
    \/ \E item_type \in QueueTypes : QueueItemAdd(item_type)
    \/ \E item_id \in QueueItemIDs : QueueItemStart(item_id)
    \/ \E item_id \in QueueItemIDs : QueueItemFinish(item_id, TRUE)
    \/ \E item_id \in QueueItemIDs, function \in ItemFunctions :
          QueueItemModify(item_id, function)
    \/ \E item_id \in QueueItemIDs : QueueItemRemove(item_id)
    \/ \E queue_type \in QueueTypes : QueueClear(queue_type)
    \/ ProgressBegin

SpecQueue == InitQueue /\ [][NextQueue]_vars

(* SpecProgress: calls on the progress, log and queue functions of one     *)
(* backend whose queue gets at most MaxProgressItems items.                *)
MaxProgressItems == 1

NextProgress ==
    \/ ProgressBegin
    \/ ProgressEnd
    \/ \E total \in ProgressValues : ProgressSetTotal(total)
    \/ \E current \in ProgressValues : ProgressSetCurrent(current)
    \/ LogNewline
    \/ QueueBegin
    \/ QueueEnd
    \/ \E item_type \in QueueTypes :
          Len(issued) < MaxProgressItems /\ QueueItemAdd(item_type)
    \/ \E item_id \in QueueItemIDs : QueueItemStart(item_id)
    \/ \E item_id \in QueueItemIDs, was_ok \in BOOLEAN :
          QueueItemFinish(item_id, was_ok)
    \/ \E item_id \in QueueItemIDs, function \in ItemFunctions :
          QueueItemModify(item_id, function)
    \/ \E item_id \in QueueItemIDs : QueueItemRemove(item_id)
    \/ \E queue_type \in QueueTypes : QueueClear(queue_type)

SpecProgress == InitQueue /\ [][NextProgress]_vars

-----------------------------------------------------------------------------
(* SpecLog: calls on the two functions of the LogBackend, with contents of  *)
(* one line and of more lines than the journal's limit.                     *)

\* The lines that content.split('\n') yields for a content of n lines, each
\* shorter than the terminal is wide: the lines are numbered in their order.
ContentLines(n) == [i \in 1..n |-> i]

ContentSizes == {1, LOG_JOURNAL_MAX_LINES + 1}

\* A log_newline call on a journal that is at or past its limit.
LogNewlineAtLimit ==
    /\ Len(state.log_journal) >= LOG_JOURNAL_MAX_LINES
    /\ state' = log_newline(state)
    /\ backend_call' = [op |-> "log_newline"]
    /\ UNCHANGED <<next_queue_item_id, issued, threadVars, transcodeVars>>

\* A log_println call; the long content is logged while the journal is within
\* its limit.
LogPrintln(n) ==
    /\ n > 1 => Len(state.log_journal) <= LOG_JOURNAL_MAX_LINES
    /\ state' = log_println(state, ContentLines(n))
    /\ backend_call' = [op |-> "log_println", lines |-> n]
    /\ UNCHANGED <<next_queue_item_id, issued, threadVars, transcodeVars>>

NextLog ==
    \/ LogNewline
    \/ LogNewlineAtLimit
    \/ \E n \in ContentSizes : LogPrintln(n)
    \/ QueueBegin
    \/ QueueEnd

SpecLog == InitQueue /\ [][NextLog]_vars

----------------------------------------------------------------------------
(* The render thread that setup() starts, and the main thread's calls on   *)
(* the backend taken apart into their steps under the state lock.          *)

queueVars == <<state, next_queue_item_id, backend_call, issued>>

\* terminal.setup(): the two channels are made, the render thread starts.
Setup ==
    /\ ~backend.has_been_set_up
    /\ render_pc = "not_started"
    /\ caller.pc = "idle"
    /\ backend' = [backend EXCEPT !.has_been_set_up = TRUE]
    /\ render_pc' = "check_stop"
    /\ UNCHANGED <<queueVars, terminal_lock, state_lock, rendered, caller,
                   stop_channel, user_control, main_pc, exit_code,
                   transcodeVars>>

\* stop_rx.try_recv(): a stop signal ends the loop, else a pass is drawn.
RenderCheckStop ==
    /\ render_pc = "check_stop"
    /\ IF stop_channel > 0
       THEN /\ stop_channel' = stop_channel - 1
            /\ render_pc' = "last_lock_terminal"
       ELSE /\ stop_channel' = stop_channel
            /\ render_pc' = "lock_terminal"
    /\ UNCHANGED <<queueVars, backend, terminal_lock, state_lock, rendered,
                   caller, user_control, main_pc, exit_code, transcodeVars>>

\* terminal_render_thread_clone.lock().unwrap()
RenderLockTerminal ==
    /\ render_pc \in {"lock_terminal", "last_lock_terminal"}
    /\ terminal_lock = "free"
    /\ terminal_lock' = "render"
    /\ render_pc' = IF render_pc = "lock_terminal" THEN "lock_state"
                    ELSE "last_lock_state"
    /\ UNCHANGED <<queueVars, backend, state_lock, rendered, caller,
                   stop_channel, user_control, main_pc, exit_code,
                   transcodeVars>>

\* state_render_thread_clone.lock().unwrap()
RenderLockState ==
    /\ render_pc \in {"lock_state", "last_lock_state"}
    /\ state_lock = "free"
    /\ state_lock' = "render"
    /\ render_pc' = IF render_pc = "lock_state" THEN "draw" ELSE "last_draw"
    /\ UNCHANGED <<queueVars, backend, terminal_lock, rendered, caller,
                   stop_channel, user_control, main_pc, exit_code,
                   transcodeVars>>

\* The state a render pass may see: the state between two calls, the state
\* the running call found, or the state the running call leaves.
Whole(ui) ==
    \/ caller.pc \notin {"locked", "deactivated"}
    \/ ui = caller.before
    \/ ui = queue_item_finish(caller.before, caller.item_id,
                              caller.was_ok).state

\* terminal.draw(perform_render(state, ..)); both guards are dropped.
RenderDraw ==
    /\ render_pc \in {"draw", "last_draw"}
    /\ rendered' = IF Whole(state) THEN "whole" ELSE "torn"
    /\ terminal_lock' = IF terminal_lock = "render" THEN "free"
                        ELSE terminal_lock
    /\ state_lock' = IF state_lock = "render" THEN "free" ELSE state_lock
    /\ render_pc' = IF render_pc = "draw" THEN "poll" ELSE "ended"
    /\ UNCHANGED <<queueVars, backend, caller, stop_channel, user_control,
                   main_pc, exit_code, transcodeVars>>

MaxKeyPresses == 1

\* A plausible slip: the key 'q' also ends the render thread.
RenderForwardsQAndEnds ==
    /\ render_pc = "poll"
    /\ Len(user_control) < MaxKeyPresses
    /\ user_control' = Append(user_control, "Exit")
    /\ render_pc' = "ended"
    /\ UNCHANGED <<queueVars, backend, terminal_lock, state_lock,
                   rendered, caller, stop_channel, main_pc, exit_code,
                   transcodeVars>>

\* crossterm::event::read() gives the key 'q': one Exit message is sent and
\* the thread goes on waiting for the next frame.
RenderForwardsQ ==
    /\ render_pc = "poll"
    /\ Len(user_control) < MaxKeyPresses
    /\ user_control' = Append(user_control, "Exit")
    /\ UNCHANGED <<queueVars, backend, render_pc, terminal_lock, state_lock,
                   rendered, caller, stop_channel, main_pc, exit_code,
                   transcodeVars>>

\* The time to the next frame is over.
RenderTick ==
    /\ render_pc = "poll"
    /\ render_pc' = "check_stop"
    /\ UNCHANGED <<queueVars, backend, terminal_lock, state_lock, rendered,
                   caller, stop_channel, user_control, main_pc, exit_code,
                   transcodeVars>>

RenderThread ==
    \/ RenderCheckStop
    \/ RenderLockTerminal
    \/ RenderLockState
    \/ RenderDraw
    \/ RenderForwardsQ
    \/ RenderTick

\* A plausible slip: queue_item_finish writes without taking the lock.
FinishWithoutLock(item_id, was_ok) ==
    /\ caller.pc = "idle"
    /\ caller' = [pc |-> "locked", item_id |-> item_id, was_ok |-> was_ok,
                  before |-> state]
    /\ UNCHANGED <<queueVars, backend, render_pc, terminal_lock, state_lock,
                   rendered, stop_channel, user_control, main_pc, exit_code,
                   transcodeVars>>

\* queue_item_finish: let mut state = self.lock_state();
FinishLock(item_id, was_ok) ==
    /\ caller.pc = "idle"
    /\ state_lock = "free"
    /\ state_lock' = "caller"
    /\ caller' = [pc |-> "locked", item_id |-> item_id, was_ok |-> was_ok,
                  before |-> state]
    /\ UNCHANGED <<queueVars, backend, render_pc, terminal_lock, rendered,
                   stop_channel, user_control, main_pc, exit_code,
                   transcodeVars>>

\* The queue is disabled or has no such item: Err, the guard is dropped.
\* Otherwise item.is_active = false.
FinishDeactivate ==
    /\ caller.pc = "locked"
    /\ IF Found(state, caller.item_id) \in {"disabled", "absent"}
       THEN /\ backend_call' =
                  BackendCalled("queue_item_finish", caller.item_id,
                      caller.was_ok,
                      queue_item_finish(state, caller.item_id, caller.was_ok))
            /\ state' = state
            /\ caller' = Idle
            /\ state_lock' = IF state_lock = "caller" THEN "free"
                             ELSE state_lock
       ELSE /\ state' = [state EXCEPT !.queue_state =
                  Some(WriteItem(unwrap(@),
                      [unwrap(find_item_by_id(unwrap(@), caller.item_id))
                          EXCEPT !.is_active = FALSE]))]
            /\ caller' = [caller EXCEPT !.pc = "deactivated"]
            /\ UNCHANGED <<backend_call, state_lock>>
    /\ UNCHANGED <<next_queue_item_id, issued, backend, render_pc,
                   terminal_lock, rendered, stop_channel, user_control,
                   main_pc, exit_code, transcodeVars>>

\* item.set_finished_state(QueueItemFinishedState { is_ok: was_ok });
\* Ok(()) is returned and the guard is dropped.
FinishSetState ==
    /\ caller.pc = "deactivated"
    /\ backend_call' =
          [BackendCalled("queue_item_finish", caller.item_id, caller.was_ok,
                         [result |-> "Ok"])
              EXCEPT !.found = Found(caller.before, caller.item_id)]
    /\ state' = [state EXCEPT !.queue_state =
          Some(WriteItem(unwrap(@),
              set_finished_state(
                  unwrap(find_item_by_id(unwrap(@), caller.item_id)),
                  [is_ok |-> caller.was_ok])))]
    /\ caller' = Idle
    /\ state_lock' = IF state_lock = "caller" THEN "free" ELSE state_lock
    /\ UNCHANGED <<next_queue_item_id, issued, backend, render_pc,
                   terminal_lock, rendered, stop_channel, user_control,
                   main_pc, exit_code, transcodeVars>>

\* destroy(): the stop signal is sent; render_thread.join() follows.
DestroySendStop ==
    /\ backend.has_been_set_up
    /\ render_pc \notin {"not_started", "joined"}
    /\ caller.pc = "idle"
    /\ stop_channel = 0
    /\ stop_channel' = 1
    /\ caller' = [Idle EXCEPT !.pc = "join"]
    /\ UNCHANGED <<queueVars, backend, render_pc, terminal_lock, state_lock,
                   rendered, user_control, main_pc, exit_code, transcodeVars>>

\* A plausible slip: destroy() sends the signal and does not wait for the
\* render thread.
DestroyWithoutJoin ==
    /\ caller.pc = "join"
    /\ terminal_lock = "free"
    /\ render_pc' = "joined"
    /\ backend' = [backend EXCEPT !.log_file_output = FALSE]
    /\ caller' = Idle
    /\ main_pc' = IF main_pc = "logged" THEN "destroyed" ELSE main_pc
    /\ UNCHANGED <<queueVars, terminal_lock, state_lock, rendered,
                   stop_channel, user_control, exit_code, transcodeVars>>

\* The render thread has ended: the cursor is reset, raw mode is left and
\* disable_saving_logs_to_file takes and flushes the log file.
DestroyJoin ==
    /\ caller.pc = "join"
    /\ render_pc = "ended"
    /\ terminal_lock = "free"
    /\ render_pc' = "joined"
    /\ backend' = [backend EXCEPT !.log_file_output = FALSE]
    /\ caller' = Idle
    /\ main_pc' = IF main_pc = "logged" THEN "destroyed" ELSE main_pc
    /\ UNCHANGED <<queueVars, terminal_lock, state_lock, rendered,
                   stop_channel, user_control, exit_code, transcodeVars>>

\* A call that is modelled in one step runs while the main thread is in no
\* other call and the state lock is free.
CallerFree == caller.pc = "idle" /\ state_lock = "free"

(* SpecRender: the render thread next to a main thread that fills a queue  *)
(* of at most MaxProgressItems items and finishes its items.               *)
NextRender ==
    \/ Setup
    \/ RenderThread
    \/ CallerFree /\ QueueBegin
    \/ \E item_type \in QueueTypes :
          CallerFree /\ Len(issued) < MaxProgressItems
                     /\ QueueItemAdd(item_type)
    \/ \E item_id \in QueueItemIDs : CallerFree /\ QueueItemStart(item_id)
    \/ \E item_id \in QueueItemIDs, was_ok \in BOOLEAN :
          FinishLock(item_id, was_ok)
    \/ FinishDeactivate
    \/ FinishSetState
    \/ DestroySendStop
    \/ DestroyJoin

SpecRender == InitQueue /\ [][NextRender]_vars

-----------------------------------------------------------------------------
(* SpecThreads: the render thread next to a main thread whose log calls    *)
(* are taken apart into their lock requests, from setup() to destroy().    *)

MaxLogLines == 2

lockVars == <<next_queue_item_id, issued, backend, render_pc, rendered,
              stop_channel, user_control, main_pc, exit_code, transcodeVars>>

\* log_println is called with a content of one line.
LogPrintlnCall ==
    /\ caller.pc = "idle"
    /\ Len(state.log_journal) < MaxLogLines
    /\ caller' = [Idle EXCEPT !.pc = "log_lock_terminal"]
    /\ UNCHANGED <<state, backend_call, terminal_lock, state_lock, lockVars>>

\* let terminal = self.terminal.lock().unwrap();
LogLockTerminal ==
    /\ caller.pc = "log_lock_terminal"
    /\ terminal_lock = "free"
    /\ terminal_lock' = "caller"
    /\ caller' = [caller EXCEPT !.pc = "log_lock_state"]
    /\ UNCHANGED <<state, backend_call, state_lock, lockVars>>

\* let mut state = self.lock_state();
LogLockState ==
    /\ caller.pc = "log_lock_state"
    /\ state_lock = "free"
    /\ state_lock' = "caller"
    /\ caller' = [caller EXCEPT !.pc = "log_push"]
    /\ UNCHANGED <<state, backend_call, terminal_lock, lockVars>>

\* A plausible slip: the guards of the block live on into trim_log_journal.
LogPushKeepsGuards ==
    /\ caller.pc = "log_push"
    /\ state' = [state EXCEPT !.log_journal =
                    push_front_all(@, ContentLines(1))]
    /\ backend_call' = [op |-> "log_println", lines |-> 1]
    /\ caller' = [caller EXCEPT !.pc = "trim_lock"]
    /\ UNCHANGED <<terminal_lock, state_lock, lockVars>>

\* The lines are pushed to the front; the block ends and drops both guards;
\* self.trim_log_journal() is called.
LogPush ==
    /\ caller.pc = "log_push"
    /\ state' = [state EXCEPT !.log_journal =
                    push_front_all(@, ContentLines(1))]
    /\ backend_call' = [op |-> "log_println", lines |-> 1]
    /\ terminal_lock' = "free"
    /\ state_lock' = "free"
    /\ caller' = [caller EXCEPT !.pc = "trim_lock"]
    /\ UNCHANGED lockVars

\* log_newline is called for the first line of the run.
LogNewlineCall ==
    /\ caller.pc = "idle"
    /\ state.log_journal = <<>>
    /\ caller' = [Idle EXCEPT !.pc = "newline_lock_state"]
    /\ UNCHANGED <<state, backend_call, terminal_lock, state_lock, lockVars>>

\* log_newline: let mut state = self.lock_state();
NewlineLockState ==
    /\ caller.pc = "newline_lock_state"
    /\ state_lock = "free"
    /\ state_lock' = "caller"
    /\ caller' = [caller EXCEPT !.pc = "newline_push"]
    /\ UNCHANGED <<state, backend_call, terminal_lock, lockVars>>

\* push_front("\n"); the block ends; self.trim_log_journal() is called.
NewlinePush ==
    /\ caller.pc = "newline_push"
    /\ state' = [state EXCEPT !.log_journal = <<"newline">> \o @]
    /\ backend_call' = [op |-> "log_newline"]
    /\ state_lock' = "free"
    /\ caller' = [caller EXCEPT !.pc = "trim_lock"]
    /\ UNCHANGED <<terminal_lock, lockVars>>

\* trim_log_journal: let mut state = self.lock_state();
TrimLock ==
    /\ caller.pc = "trim_lock"
    /\ state_lock = "free"
    /\ state_lock' = "caller"
    /\ caller' = [caller EXCEPT !.pc = "trim"]
    /\ UNCHANGED <<state, backend_call, terminal_lock, lockVars>>

\* The journal is trimmed, the guard is dropped and the log call returns.
Trim ==
    /\ caller.pc = "trim"
    /\ state' = trim_log_journal(state)
    /\ state_lock' = "free"
    /\ caller' = Idle
    /\ UNCHANGED <<backend_call, terminal_lock, lockVars>>

LogCall ==
    \/ LogPrintlnCall
    \/ LogLockTerminal
    \/ LogLockState
    \/ LogPush
    \/ LogNewlineCall
    \/ NewlineLockState
    \/ NewlinePush
    \/ TrimLock
    \/ Trim

NextThreads ==
    \/ Setup
    \/ RenderThread
    \/ LogCall
    \/ DestroySendStop
    \/ DestroyJoin

\* A thread that can take a step takes one; a lock that is free again and
\* again (the render thread sleeps between two passes) is granted to the
\* thread that waits for it.
FairThreads ==
    /\ WF_vars(RenderCheckStop) /\ WF_vars(RenderDraw) /\ WF_vars(RenderTick)
    /\ SF_vars(RenderLockTerminal) /\ SF_vars(RenderLockState)
    /\ SF_vars(LogLockTerminal) /\ SF_vars(LogLockState)
    /\ SF_vars(NewlineLockState) /\ SF_vars(TrimLock)
    /\ WF_vars(LogPush) /\ WF_vars(NewlinePush) /\ WF_vars(Trim)
    /\ WF_vars(DestroyJoin)

SpecThreads == InitQueue /\ [][NextThreads]_vars /\ FairThreads

----------------------------------------------------------------------------
(* run_requested_cli_command and main around cmd_transcode_all.            *)

\* --log-to-file is absent, or names a file that File::create can or can
\* not create.
LogFileOutcomes == {"absent", "created", "fails"}

\* enable_saving_logs_to_file(..).map_err(|_| 1)?
EnableLogs(outcome) ==
    /\ main_pc = "main"
    /\ backend.has_been_set_up
    /\ backend' = [backend EXCEPT !.log_file_output = (outcome = "created")]
    /\ IF outcome = "fails"
       THEN main_pc' = "exited" /\ exit_code' = 1
       ELSE main_pc' = "command" /\ exit_code' = exit_code
    /\ UNCHANGED <<queueVars, render_pc, terminal_lock, state_lock, rendered,
                   caller, stop_channel, user_control, transcodeVars>>

\* match cmd_transcode_all(..): the final message or the error is given to
\* terminal.log_println.
LogOutcome ==
    /\ main_pc = "command"
    /\ pc = "done"
    /\ result \in {"Ok", "Err"}
    /\ CallerFree /\ terminal_lock = "free"
    /\ state' = log_println(state,
                    IF result = "Ok" THEN <<"final_message">> ELSE <<"error">>)
    /\ main_pc' = "logged"
    /\ UNCHANGED <<next_queue_item_id, backend_call, issued, backend,
                   render_pc, terminal_lock, state_lock, rendered, caller,
                   stop_channel, user_control, exit_code, transcodeVars>>

\* A plausible slip: the process always exits with 0.
ProcessExitAlwaysZero ==
    /\ main_pc = "destroyed"
    /\ main_pc' = "exited"
    /\ exit_code' = 0
    /\ UNCHANGED <<queueVars, backend, render_pc, terminal_lock, state_lock,
                   rendered, caller, stop_channel, user_control,
                   transcodeVars>>

\* Ok(()) or Err(1) is returned to main: exit(0) or exit(exit_code).
ProcessExit ==
    /\ main_pc = "destroyed"
    /\ main_pc' = "exited"
    /\ exit_code' = IF result = "Ok" THEN 0 ELSE 1
    /\ UNCHANGED <<queueVars, backend, render_pc, terminal_lock, state_lock,
                   rendered, caller, stop_channel, user_control,
                   transcodeVars>>

\* get_configuration(&args)? fails: main returns the error.
ConfigurationFails ==
    /\ main_pc = "main"
    /\ pc = "done"
    /\ result \in ConfigurationErrors
    /\ main_pc' = "exited"
    /\ exit_code' = 1
    /\ UNCHANGED <<queueVars, backend, render_pc, terminal_lock, state_lock,
                   rendered, caller, stop_channel, user_control,
                   transcodeVars>>

\* The render thread has been told to stop and is on its way out.
Stopping ==
    \/ stop_channel > 0
    \/ render_pc \in {"last_lock_terminal", "last_lock_state", "last_draw"}

(* SpecMain: the transcode command from main to the exit of the process.   *)
(* The render thread is followed from the stop signal on.                  *)
InitMain == Init /\ command = <<"all", 0>>

\* cmd_transcode_all runs between the setup of the backend and the match
\* on what it returned.
InCommand == main_pc = "command"

NextMain ==
    \/ LoadConfiguration
    \/ InCommand /\ ScanLibraries
    \/ InCommand /\ ScanFails
    \/ InCommand /\ GetWorkPackets
    \/ InCommand /\ GetWorkPacketsFails
    \/ InCommand /\ Finish
    \/ InCommand /\ EnterBatch
    \/ InCommand /\ ScopeSpawn
    \/ InCommand /\ ScopeNameError
    \/ InCommand /\ Join
    \/ InCommand /\ SaveFreshMeta
    \/ InCommand /\ SaveFreshMetaFails
    \/ InCommand /\ Worker
    \/ pc = "start" /\ main_pc = "main" /\ Setup
    \/ \E outcome \in LogFileOutcomes : EnableLogs(outcome)
    \/ LogOutcome
    \/ main_pc = "logged" /\ DestroySendStop
    \/ Stopping /\ RenderCheckStop
    \/ Stopping /\ RenderLockTerminal
    \/ Stopping /\ RenderLockState
    \/ Stopping /\ RenderDraw
    \/ DestroyJoin
    \/ ProcessExit
    \/ ConfigurationFails

SpecMain == InitMain /\ [][NextMain]_vars

(* SpecStop: transcode-all on a library that was never transcoded, whose   *)
(* albums have MaxFiles files each, while the render thread draws frames   *)
(* and the user presses 'q'.                                               *)
InitStop ==
    /\ InitMain
    /\ unresolved = [path |-> "valid", transcode_threads |-> MaxThreads]
    /\ sidecar = [a \in Albums |-> None]
    /\ album_files = [a \in Albums |-> Canon(MaxFiles)]

NextStop ==
    \/ LoadConfiguration
    \/ pc = "start" /\ main_pc = "main" /\ Setup
    \/ EnableLogs("absent")
    \/ RenderThread
    \/ InCommand /\ ScanLibraries
    \/ InCommand /\ GetWorkPackets
    \/ InCommand /\ Finish
    \/ InCommand /\ EnterBatch
    \/ InCommand /\ ScopeSpawn
    \/ InCommand /\ Join
    \/ InCommand /\ SaveFreshMeta
    \/ InCommand /\ Worker

SpecStop == InitStop /\ [][NextStop]_vars

-----------------------------------------------------------------------------
(* SpecOrder: the order in which cmd_transcode_all enters the libraries    *)
(* and dispatches their albums.  A library name and an album title are     *)
(* written as their rank in the order of str::cmp.                         *)

MaxAlbumPackets == 2

LibraryNames == {1, 2}
AlbumTitles == {1, 2}

SeqsUpTo(S, n) == UNION {[1..k -> S] : k \in 0..n}

\* An album directory of a library: its title and what needs_processing
\* says about it during the scan.
AlbumPacketInputs == [album_title : AlbumTitles, needs_processing : BOOLEAN]

\* The libraries of the configuration in the order the map yields them, each
\* with its album directories in discovery order.
LibraryPacketInputs ==
    {lp \in SeqsUpTo([name : LibraryNames,
                      albums : SeqsUpTo(AlbumPacketInputs, MaxAlbumPackets)],
                     Cardinality(LibraryNames)) :
        \A i, j \in 1..Len(lp) : lp[i].name = lp[j].name => i = j}

\* LibraryWorkPacket::get_albums_in_need_of_processing: the albums of the
\* library for which needs_processing is true, in discovery order.
albums_in_need_of_processing(library_packet) ==
    SelectSeq(library_packet.albums, LAMBDA album : album.needs_processing)

Orderings(n) ==
    {f \in [1..n -> 1..n] : \A i, j \in 1..n : f[i] = f[j] => i = j}

\* A plausible slip: the list is left in the order it came in.
sort_keeps_order(list, keys) == list

\* sort_unstable_by: the list in non-decreasing order of its keys (keys[i]
\* is the key of list[i]).
sort_unstable_by(list, keys) ==
    LET n == Len(list)
        order == CHOOSE f \in Orderings(n) :
                    \A i, j \in 1..n :
                        i < j => \/ keys[f[i]] < keys[f[j]]
                                 \/ keys[f[i]] = keys[f[j]] /\ f[i] < f[j]
    IN [i \in 1..n |-> list[order[i]]]

\* mod.rs 203-223: per library the albums in need of processing, sorted by
\* title; the libraries that have such albums, sorted by name.
filter_library_packets(packets) ==
    LET with_albums ==
            [i \in 1..Len(packets) |->
                LET albums == albums_in_need_of_processing(packets[i])
                IN [name |-> packets[i].name,
                    albums |-> sort_unstable_by(albums,
                        [k \in 1..Len(albums) |-> albums[k].album_title]),
                    entered |-> FALSE]]
        filtered == SelectSeq(with_albums,
                              LAMBDA library : Len(library.albums) > 0)
    IN sort_unstable_by(filtered,
                        [k \in 1..Len(filtered) |-> filtered[k].name])

\* List all libraries.
ListLibraries ==
    /\ library_packets = None
    /\ \E packets \in LibraryPacketInputs : library_packets' = Some(packets)
    /\ UNCHANGED <<filtered_library_packets, processed, configurationVars,
                   programVars>>

\* Filter libraries to ones that need at least one album processed.
FilterLibraries ==
    /\ library_packets # None
    /\ filtered_library_packets = None
    /\ filtered_library_packets' =
          Some(filter_library_packets(unwrap(library_packets)))
    /\ UNCHANGED <<library_packets, processed, configurationVars,
                   programVars>>

\* The head of the library loop: set_current_library(&library.name).
SetCurrentLibrary ==
    /\ filtered_library_packets # None
    /\ unwrap(filtered_library_packets) # <<>>
    /\ LET library == Head(unwrap(filtered_library_packets))
       IN /\ ~library.entered
          /\ filtered_library_packets' =
                Some(<<[library EXCEPT !.entered = TRUE]>>
                     \o Tail(unwrap(filtered_library_packets)))
          /\ processed' = Append(processed,
                [library |-> library.name, album |-> None])
    /\ UNCHANGED <<library_packets, configurationVars, programVars>>

\* One pass of the album loop: the album's file packets are processed and
\* its snapshot is saved.
ProcessAlbum ==
    /\ filtered_library_packets # None
    /\ unwrap(filtered_library_packets) # <<>>
    /\ LET library == Head(unwrap(filtered_library_packets))
       IN /\ library.entered
          /\ library.albums # <<>>
          /\ filtered_library_packets' =
                Some(<<[library EXCEPT !.albums = Tail(@)]>>
                     \o Tail(unwrap(filtered_library_packets)))
          /\ processed' = Append(processed,
                [library |-> library.name,
                 album |-> Some(Head(library.albums))])
    /\ UNCHANGED <<library_packets, configurationVars, programVars>>

\* get_work_packets, the batch or save_fresh_meta fails on the album: the
\* command returns the error and the lists are dropped.
AlbumFails ==
    /\ filtered_library_packets # None
    /\ unwrap(filtered_library_packets) # <<>>
    /\ LET library == Head(unwrap(filtered_library_packets))
       IN /\ library.entered
          /\ library.albums # <<>>
          /\ processed' = Append(processed,
                [library |-> library.name,
                 album |-> Some(Head(library.albums))])
    /\ filtered_library_packets' = Some(<<>>)
    /\ UNCHANGED <<library_packets, configurationVars, programVars>>

\* The album loop of the library has run out: library_progress_bar.inc(1).
NextLibrary ==
    /\ filtered_library_packets # None
    /\ unwrap(filtered_library_packets) # <<>>
    /\ LET library == Head(unwrap(filtered_library_packets))
       IN library.entered /\ library.albums = <<>>
    /\ filtered_library_packets' =
          Some(Tail(unwrap(filtered_library_packets)))
    /\ UNCHANGED <<library_packets, processed, configurationVars,
                   programVars>>

NextOrder ==
    \/ ListLibraries
    \/ FilterLibraries
    \/ SetCurrentLibrary
    \/ ProcessAlbum
    \/ AlbumFails
    \/ NextLibrary

SpecOrder == InitQueue /\ [][NextOrder]_vars

-----------------------------------------------------------------------------
(* SpecPaths: UnresolvedPathsConfiguration::try_resolve on the paths table *)
(* of a configuration file.  A path string is the sequence of its          *)
(* segments; the file system says what dunce::canonicalize makes of a path *)
(* and what current_exe() returns.                                         *)

BINARY_DIRECTORY_PATH == "{BINARY_DIRECTORY_PATH}"

PathStrings == {<<"music">>, <<BINARY_DIRECTORY_PATH, "tools">>}

executable_directory == "opt_euphony"

\* str::replace("{BINARY_DIRECTORY_PATH}", &executable_directory)
replace(path_string, from, to) ==
    [i \in 1..Len(path_string) |->
        IF path_string[i] = from THEN to ELSE path_string[i]]

FinalPaths ==
    {replace(p, BINARY_DIRECTORY_PATH, executable_directory) :
        p \in PathStrings}

CurrentExeOutcomes == {"ok", "fails", "no_parent", "not_utf8"}
CanonicalizeOutcomes == {"ok", "fails", "not_utf8"}

PathsFilesystems ==
    [current_exe : CurrentExeOutcomes,
     canonicalize : [FinalPaths -> CanonicalizeOutcomes]]

UnresolvedPathsConfigurations ==
    [base_library_path : PathStrings, base_tools_path : PathStrings]

PathsError(error, original_path, final_path) ==
    [error |-> error, original_path |-> original_path,
     final_path |-> final_path, paths |-> None]

\* UnresolvedPathsConfiguration::try_resolve
Paths_try_resolve(self, fs) ==
    IF fs.current_exe \in {"fails", "no_parent"}
    THEN PathsError("FailedToGetCurrentExecutable", None, None)
    ELSE IF fs.current_exe = "not_utf8"
    THEN PathsError("PathIsNotUtf8", None, None)
    ELSE
    LET library_path_string ==
            replace(self.base_library_path, BINARY_DIRECTORY_PATH,
                    executable_directory)
        tools_path_string ==
            replace(self.base_tools_path, BINARY_DIRECTORY_PATH,
                    executable_directory)
    IN IF fs.canonicalize[library_path_string] = "fails"
       THEN PathsError("FailedToCanonicalizeBaseLibraryPath",
                       Some(self.base_library_path),
                       Some(library_path_string))
       ELSE IF fs.canonicalize[library_path_string] = "not_utf8"
       THEN PathsError("PathIsNotUtf8", None, None)
       ELSE IF fs.canonicalize[tools_path_string] = "fails"
       THEN PathsError("FailedToCanonicalizeBaseToolsPath",
                       Some(self.base_library_path),
                       Some(tools_path_string))
       ELSE IF fs.canonicalize[tools_path_string] = "not_utf8"
       THEN PathsError("PathIsNotUtf8", None, None)
       ELSE [error |-> "none", original_path |-> None, final_path |-> None,
             paths |-> Some([base_library_path |-> library_path_string,
                             base_tools_path |-> tools_path_string])]

\* The paths table is deserialized, on some file system.
LoadPaths ==
    /\ unresolved_configuration = None
    /\ \E fs \in PathsFilesystems, u \in UnresolvedPathsConfigurations :
          /\ filesystem' = Some(fs)
          /\ unresolved_configuration' = Some(u)
    /\ UNCHANGED <<configuration, classified, orderVars, programVars>>

\* self.paths.try_resolve()
ResolvePaths ==
    /\ unresolved_configuration # None
    /\ configuration = None
    /\ configuration' = Some(Paths_try_resolve(
                                unwrap(unresolved_configuration),
                                unwrap(filesystem)))
    /\ UNCHANGED <<filesystem, unresolved_configuration, classified,
                   orderVars, programVars>>

NextPaths ==
    \/ LoadPaths
    \/ ResolvePaths

SpecPaths == InitQueue /\ [][NextPaths]_vars

-----------------------------------------------------------------------------
(* SpecTranscoding: UnresolvedLibraryTranscodingConfiguration::resolve and *)
(* the two questions a LibraryTranscodingConfiguration answers about a     *)
(* file path.  An extension is the sequence of its characters.             *)

MaxExtensions == 2

Extensions == {<<"m", "p", "3">>, <<"M", "P", "3">>, <<"j", "p", "g">>}

\* char::to_ascii_lowercase
LowerCase(c) ==
    CASE c = "M" -> "m"
      [] c = "P" -> "p"
      [] c = "J" -> "j"
      [] c = "G" -> "g"
      [] OTHER -> c

\* str::to_ascii_lowercase
to_ascii_lowercase(str) == [i \in 1..Len(str) |-> LowerCase(str[i])]

UnresolvedLibraryTranscodingConfigurations ==
    [audio_file_extensions : SeqsUpTo(Extensions, MaxExtensions),
     other_file_extensions : SeqsUpTo(Extensions, MaxExtensions)]

\* UnresolvedLibraryTranscodingConfiguration::resolve
Transcoding_resolve(self) ==
    LET audio_file_extensions ==
            [i \in 1..Len(self.audio_file_extensions) |->
                to_ascii_lowercase(self.audio_file_extensions[i])]
        other_file_extensions ==
            [i \in 1..Len(self.other_file_extensions) |->
                to_ascii_lowercase(self.other_file_extensions[i])]
    IN [audio_file_extensions |-> audio_file_extensions,
        other_file_extensions |-> other_file_extensions,
        all_tracked_extensions |->
            audio_file_extensions \o other_file_extensions]

\* A file path: its extension, if it has one; not_utf8 is an extension that
\* is not valid UTF-8.
not_utf8 == <<"not_utf8">>

FilePaths ==
    {[extension |-> Some(e)] :
        e \in Extensions \cup {<<"t", "x", "t">>, not_utf8}}
    \cup {[extension |-> None]}

\* get_path_extension_or_empty: the lower-cased extension of the path, the
\* empty string for a path without one, Err for one that is not UTF-8.
get_path_extension_or_empty(file_path) ==
    IF file_path.extension = None THEN [result |-> "Ok", value |-> <<>>]
    ELSE IF unwrap(file_path.extension) = not_utf8
    THEN [result |-> "Err", value |-> <<>>]
    ELSE [result |-> "Ok",
          value |-> to_ascii_lowercase(unwrap(file_path.extension))]

\* Vec::contains
contains(list, e) == \E i \in 1..Len(list) : list[i] = e

ExtensionAnswer(list, file_path) ==
    LET extension == get_path_extension_or_empty(file_path)
    IN IF extension.result = "Err" THEN [result |-> "Err", value |-> FALSE]
       ELSE [result |-> "Ok", value |-> contains(list, extension.value)]

is_audio_file_by_extension(self, file_path) ==
    ExtensionAnswer(self.audio_file_extensions, file_path)

is_data_file_by_extension(self, file_path) ==
    ExtensionAnswer(self.other_file_extensions, file_path)

\* A file is tracked when its extension is among all_tracked_extensions.
is_tracked_by_extension(self, file_path) ==
    ExtensionAnswer(self.all_tracked_extensions, file_path)

\* The transcoding table of a library is deserialized.
LoadTranscoding ==
    /\ unresolved_configuration = None
    /\ \E u \in UnresolvedLibraryTranscodingConfigurations :
          unresolved_configuration' = Some(u)
    /\ UNCHANGED <<filesystem, configuration, classified, orderVars,
                   programVars>>

\* self.transcoding.resolve()
ResolveTranscoding ==
    /\ unresolved_configuration # None
    /\ configuration = None
    /\ configuration' =
          Some(Transcoding_resolve(unwrap(unresolved_configuration)))
    /\ UNCHANGED <<filesystem, unresolved_configuration, classified,
                   orderVars, programVars>>

\* The resolved configuration is asked about a file path.
ClassifyFile(file_path) ==
    /\ configuration # None
    /\ classified' = Some(
          [file_path |-> file_path,
           is_audio |-> is_audio_file_by_extension(unwrap(configuration),
                                                   file_path),
           is_data |-> is_data_file_by_extension(unwrap(configuration),
                                                 file_path),
           is_tracked |-> is_tracked_by_extension(unwrap(configuration),
                                                  file_path)])
    /\ UNCHANGED <<filesystem, unresolved_configuration, configuration,
                   orderVars, programVars>>

NextTranscoding ==
    \/ LoadTranscoding
    \/ ResolveTranscoding
    \/ \E file_path \in FilePaths : ClassifyFile(file_path)

SpecTranscoding == InitQueue /\ [][NextTranscoding]_vars

-----------------------------------------------------------------------------
(* SpecLibraries: UnresolvedConfiguration::try_resolve on configurations   *)
(* whose libraries table has up to MaxLibraryKeys entries.  A key of the   *)
(* table is written as its rank in the order of the BTreeMap.  Of the      *)
(* paths, logging and tools tables only whether they resolve is kept.      *)

MaxLibraryKeys == 3

LibraryKeys == 1..MaxLibraryKeys
DisplayNames == {"Standard", "Lossless"}

\* What the file system holds at the path of a library.
LibraryPathOutcomes == {"directory", "file", "missing"}

UnresolvedLibraryConfigurations ==
    [name : DisplayNames, path : LibraryPathOutcomes]

SectionOutcomes == {"valid", "invalid"}

UnresolvedLibraryTables ==
    UNION {[keys -> UnresolvedLibraryConfigurations] :
              keys \in SUBSET LibraryKeys}

FullConfigurations ==
    [paths : SectionOutcomes, logging : SectionOutcomes,
     tools : SectionOutcomes, libraries : UnresolvedLibraryTables,
     aggregated_library :
        {[path |-> "valid", transcode_threads |-> t] : t \in {0, 1}}]

\* UnresolvedLibraryConfiguration::try_resolve
Library_try_resolve(self) ==
    IF self.path = "missing"
    THEN [error |-> "FailedToCanonicalizeLibraryPath", library |-> None]
    ELSE IF self.path = "file"
    THEN [error |-> "LibraryPathNotDirectory", library |-> None]
    ELSE [error |-> "none",
          library |-> Some([name |-> self.name, path |-> self.path])]

ResolutionError(error, library_key, library_display_name) ==
    [error |-> error, library_key |-> library_key,
     library_display_name |-> library_display_name, libraries |-> None]

\* A plausible slip: the display names are not compared.
name_is_never_taken(library_names, name) == FALSE

\* library_names.contains(&resolved_library.name)
name_is_taken(library_names, name) == name \in library_names

\* for (key, unresolved_library) in self.libraries { .. }, from `key` on
RECURSIVE resolve_libraries(_, _, _, _)
resolve_libraries(table, key, libraries, library_names) ==
    IF key > MaxLibraryKeys
    THEN [error |-> "none", library_key |-> None,
          library_display_name |-> None, libraries |-> Some(libraries)]
    ELSE IF key \notin DOMAIN table
    THEN resolve_libraries(table, key + 1, libraries, library_names)
    ELSE LET resolved == Library_try_resolve(table[key])
         IN IF resolved.error # "none"
            THEN ResolutionError("InLibrary", Some(key), None)
            ELSE LET resolved_library == unwrap(resolved.library)
                 IN IF name_is_taken(library_names, resolved_library.name)
                    THEN ResolutionError("LibraryDisplayNameConflict", None,
                                         Some(resolved_library.name))
                    ELSE resolve_libraries(table, key + 1,
                            [k \in DOMAIN libraries \cup {key} |->
                                IF k = key THEN resolved_library
                                ELSE libraries[k]],
                            library_names \cup {resolved_library.name})

\* UnresolvedConfiguration::try_resolve
Configuration_try_resolve(self) ==
    IF self.paths = "invalid" THEN ResolutionError("InPaths", None, None)
    ELSE IF self.logging = "invalid"
    THEN ResolutionError("InLogging", None, None)
    ELSE IF self.tools = "invalid"
    THEN ResolutionError("InTools", None, None)
    ELSE LET libraries == resolve_libraries(self.libraries, 1, <<>>, {})
         IN IF libraries.error # "none" THEN libraries
            ELSE IF try_resolve(self.aggregated_library).error # "none"
            THEN ResolutionError("InAggregatedLibrary", None, None)
            ELSE libraries

\* toml::from_str(&configuration_string)
LoadFromPath ==
    /\ unresolved_configuration = None
    /\ \E u \in FullConfigurations : unresolved_configuration' = Some(u)
    /\ UNCHANGED <<filesystem, configuration, classified, orderVars,
                   programVars>>

\* unresolved_configuration.try_resolve(configuration_file_path)
TryResolve ==
    /\ unresolved_configuration # None
    /\ configuration = None
    /\ configuration' =
          Some(Configuration_try_resolve(unwrap(unresolved_configuration)))
    /\ UNCHANGED <<filesystem, unresolved_configuration, classified,
                   orderVars, programVars>>

NextLibraries ==
    \/ LoadFromPath
    \/ TryResolve

SpecLibraries == InitQueue /\ [][NextLibraries]_vars

----------------------------------------------------------------------------
(* Properties of a run (Spec) *)

Count(seq, e) == Cardinality({i \in 1..Len(seq) : seq[i] = e})

\* Some job of the album was spawned into the pool.
Dispatched(a) == \E p \in Paths : job[a][p] \in Active \cup Finished

\* The album's fresh snapshot was written to its sidecar file in this run.
Persisted(a) ==
    /\ save_calls[a] > 0
    /\ sidecar[a] = Some(album_files[a])
    /\ sidecar[a] # sidecar_at_start[a]

\* save_fresh_meta was called for the album and returned an error.
SaveFailed(a) ==
    /\ save_calls[a] > 0
    /\ sidecar[a] = sidecar_at_start[a]
    /\ ~(pc = "save" /\ cur = a)

\* C1: save_fresh_meta is called for an album only after its batch returned
\* Ok with every file packet finished without error; an album with a failed
\* file packet is never saved and its sidecar file stays as it was.
C1_SaveOnlyAfterBatchOk ==
    \A a \in Albums :
        /\ save_calls[a] > 0 =>
              /\ returned[a] = "Ok"
              /\ \A p \in Paths : job[a][p] \in {"absent", "finished_ok"}
        /\ (\E p \in Paths : job[a][p] \in Failed) =>
              /\ save_calls[a] = 0
              /\ sidecar[a] = sidecar_at_start[a]

C1_Witness ==
    \E a, b \in Albums :
        /\ save_calls[a] = 1
        /\ Cardinality({p \in Paths : job[a][p] = "finished_ok"}) >= 2
        /\ returned[b] = "Err"
        /\ \E p \in Paths : job[b][p] = "finished_err"
        /\ save_calls[b] = 0

\* C2 as stated: an album for which get_work_packets returned no file packet
\* never has save_fresh_meta called.
C2_NoSaveForZeroPackets ==
    \A a \in Albums : packet_count[a] = 0 => save_calls[a] = 0

\* C2 as amended: cmd_transcode_album returns without a batch and without
\* save_fresh_meta when there is no file packet, and no command saves an
\* album that needs no processing; in cmd_transcode_all and
\* cmd_transcode_library an album with no file packet has its batch return
\* Ok at once and save_fresh_meta is called for it.
C2_ZeroPacketsAmended ==
    \A a \in Albums :
        /\ (command[1] = "album" /\ packet_count[a] = 0) =>
              /\ save_calls[a] = 0
              /\ returned[a] = "none"
              /\ result = "Ok"
        /\ needed[a] = "no" => (save_calls[a] = 0 /\ packet_count[a] = -1)
        /\ (command[1] # "album" /\ packet_count[a] = 0
              /\ ~(cur = a /\ pc \in {"batch", "save"})) =>
              save_calls[a] = 1

C2_Witness ==
    \E a \in Albums :
        /\ command = <<"album", a>>
        /\ packet_count[a] = 0
        /\ pc = "done"
        /\ sidecar_at_start[a] # None

\* C3: the errors a batch returns hold exactly one error for each job whose
\* process() failed (and the file name error, if any), and the batch returns
\* Ok exactly when none of its packets produced an error.
C3_ErrorsCollectedExactly ==
    \A a \in Albums :
        returned[a] # "none" =>
            /\ \A p \in Paths :
                  /\ Count(collected[a], <<p, "process">>) =
                        (IF job[a][p] = "finished_err" THEN 1 ELSE 0)
                  /\ Count(collected[a], <<p, "name">>) =
                        (IF job[a][p] = "name_err" THEN 1 ELSE 0)
            /\ returned[a] = "Ok" <=> (\A p \in Paths : job[a][p] \notin Failed)

C3_Witness ==
    \E a \in Albums :
        /\ returned[a] = "Err"
        /\ Cardinality({p \in Paths : job[a][p] = "finished_err"}) >= 2
        /\ Len(collected[a]) >= 2

\* C4: a batch returns only after every job it spawned has finished
\* process() and reported; while a job is not yet started or running, the
\* main thread is still inside the scope of that job's batch.
C4_ReturnsAfterAllJobs ==
    \A a \in Albums, p \in Paths :
        job[a][p] \in Active =>
            /\ returned[a] = "none"
            /\ cur = a
            /\ pc \in {"scope", "join"}

C4_Witness ==
    \E a \in Albums :
        /\ returned[a] # "none"
        /\ Cardinality({p \in Paths : job[a][p] \in Finished}) >= 2
        /\ \E p \in Paths : job[a][p] = "finished_err"

\* C5 as stated: when a batch has returned, every file packet handed to it
\* was spawned and had process() called.
C5_EveryPacketProcessed ==
    \A a \in Albums :
        returned[a] # "none" =>
            \A p \in Paths : job[a][p] # "absent" => job[a][p] \in Finished

\* C6: a spawned job takes every step of its closure in turn (process() is
\* called, returns, the progress bar is updated, the result is reported),
\* whatever its siblings did, and its batch does not return before it ended.
C6_JobStep ==
    \A a \in Albums, p \in Paths :
        /\ job[a][p] = "spawned" => job'[a][p] \in {"spawned", "processing"}
        /\ job[a][p] = "processing" =>
              job'[a][p] \in {"processing", "processed_ok", "processed_err"}
        /\ job[a][p] = "processed_ok" =>
              job'[a][p] \in {"processed_ok", "locked_ok"}
        /\ job[a][p] = "processed_err" =>
              job'[a][p] \in {"processed_err", "locked_err"}
        /\ job[a][p] = "locked_ok" => job'[a][p] \in {"locked_ok", "finished_ok"}
        /\ job[a][p] = "locked_err" =>
              /\ job'[a][p] \in {"locked_err", "finished_err"}
              /\ job'[a][p] = "finished_err" =>
                    tx'[a] = Append(tx[a], <<p, "process">>)
        /\ job[a][p] \in Active => returned'[a] = "none"

C6_DispatchedJobsRunToCompletion == [][C6_JobStep]_vars

C6_Witness ==
    \E a \in Albums, p, q \in Paths :
        /\ job[a][p] = "finished_err"
        /\ tx[a] # <<>>
        /\ job[a][q] = "spawned"

C8_AlbumsOneAfterAnother ==
    /\ \A a, b \in Albums :
          (a # b /\ \E p \in Paths : job[a][p] \in Active) =>
              \A q \in Paths : job[b][q] \notin Active
    /\ \A a, b \in Albums :
          (a < b /\ Dispatched(b) /\ packet_count[a] # -1) =>
              /\ \A p \in Paths : job[a][p] \in {"absent", "finished_ok"}
              /\ Persisted(a)

C8_Witness ==
    \E a, b \in Albums :
        /\ a < b
        /\ Cardinality({p \in Paths : job[a][p] = "finished_ok"}) >= 2
        /\ \E q \in Paths : job[b][q] = "processing"

----------------------------------------------------------------------------
(* Properties of AlbumWorkPacket (SpecAlbum) *)

\* Two snapshots differ: a path is in one only, or its fingerprints differ.
Differs(saved, fresh) ==
    \E p \in Paths :
        \/ (p \in DOMAIN saved.files) # (p \in DOMAIN fresh.files)
        \/ /\ p \in DOMAIN saved.files
           /\ p \in DOMAIN fresh.files
           /\ saved.files[p] # fresh.files[p]

\* C10: needs_processing returns true exactly when the packet has no saved
\* snapshot or its saved and fresh snapshots differ in some path; on a new
\* packet these are the snapshots on disk, and the result is true whenever
\* there is no sidecar file, whatever the directory holds.
C10_NeedsProcessingIff ==
    last_call.op = "needs_processing" =>
        LET packet == album_packets[TheAlbum]
            saved == cache_get(packet.cached_saved_meta)
        IN /\ is_cached(packet.cached_saved_meta)
           /\ ~is_none(saved) => is_cached(packet.cached_fresh_meta)
           /\ (last_call.value = "yes") <=>
                 (is_none(saved)
                    \/ Differs(unwrap(saved), cache_get(packet.cached_fresh_meta)))
           /\ last_call.new_packet =>
                 /\ saved = last_call.disk_saved
                 /\ (last_call.value = "yes") <=>
                       (is_none(last_call.disk_saved)
                          \/ Differs(unwrap(last_call.disk_saved),
                                     last_call.disk_fresh))

C10_Witness ==
    /\ last_call.op = "needs_processing"
    /\ last_call.new_packet
    /\ is_none(last_call.disk_saved)
    /\ last_call.disk_fresh = [files |-> <<>>]
    /\ last_call.value = "yes"

----------------------------------------------------------------------------
(* Properties of AlbumWorkPacket (SpecAlbum), continued *)

\* The packet of the album and its two cached values.
ThePacket == album_packets[TheAlbum]
CachedSaved == cache_get(ThePacket.cached_saved_meta)
CachedFresh == cache_get(ThePacket.cached_fresh_meta)

\* C11: get_work_packets returns an empty list when the album does not need
\* processing (a saved snapshot exists and does not differ from the fresh
\* one), and otherwise exactly one packet for every path of the fresh
\* snapshot, unchanged files included: as many packets as fresh entries.
C11_OnePacketPerFreshEntry ==
    last_call.op = "get_work_packets" =>
        /\ is_cached(ThePacket.cached_saved_meta)
        /\ IF ~is_none(CachedSaved)
              /\ is_cached(ThePacket.cached_fresh_meta)
              /\ ~Differs(unwrap(CachedSaved), CachedFresh)
           THEN last_call.value = <<>>
           ELSE /\ is_cached(ThePacket.cached_fresh_meta)
                /\ Len(last_call.value) = Cardinality(DOMAIN CachedFresh.files)
                /\ {last_call.value[i] : i \in 1..Len(last_call.value)}
                      = DOMAIN CachedFresh.files

\* Every file is tracked in both snapshots and exactly one fingerprint has
\* changed: every file gets a packet.
C11_Witness ==
    /\ last_call.op = "get_work_packets"
    /\ ~is_none(last_call.disk_saved)
    /\ DOMAIN unwrap(last_call.disk_saved).files = Paths
    /\ DOMAIN last_call.disk_fresh.files = Paths
    /\ Cardinality({p \in Paths : unwrap(last_call.disk_saved).files[p]
                                  # last_call.disk_fresh.files[p]}) = 1
    /\ Len(last_call.value) = MaxFiles
    /\ MaxFiles >= 2

\* C12 as stated: after needs_processing has returned, both caches of the
\* packet are populated, whether or not a saved snapshot exists.
C12_BothCachesPopulated ==
    last_call.op = "needs_processing" =>
        /\ is_cached(ThePacket.cached_saved_meta)
        /\ is_cached(ThePacket.cached_fresh_meta)

\* C12 amended: after needs_processing has returned, the saved-snapshot
\* cache is populated; the fresh-snapshot cache is populated when a saved
\* snapshot exists, and on a packet that had no cached value and found no
\* saved snapshot it is still empty.
C12_CachesAfterNeedsProcessing ==
    last_call.op = "needs_processing" =>
        /\ is_cached(ThePacket.cached_saved_meta)
        /\ ~is_none(CachedSaved) => is_cached(ThePacket.cached_fresh_meta)
        /\ (last_call.new_packet /\ is_none(last_call.disk_saved)) =>
              /\ is_none(CachedSaved)
              /\ ~is_cached(ThePacket.cached_fresh_meta)

C12_Witness ==
    /\ last_call.op = "needs_processing"
    /\ last_call.new_packet
    /\ is_none(last_call.disk_saved)
    /\ last_call.value = "yes"
    /\ is_cached(ThePacket.cached_saved_meta)
    /\ ~is_cached(ThePacket.cached_fresh_meta)

MethodCalls == {"needs_processing", "get_work_packets", "save_fresh_meta"}

\* One method call on a packet: a cache that holds a value keeps it, and
\* the call works with the cached values, not with the disk.
C13_CallStep ==
    LET before == album_packets[TheAlbum]
        after == album_packets'[TheAlbum]
        call == last_call'
    IN call.op \in MethodCalls =>
        /\ is_cached(before.cached_saved_meta) =>
              after.cached_saved_meta = before.cached_saved_meta
        /\ is_cached(before.cached_fresh_meta) =>
              /\ after.cached_fresh_meta = before.cached_fresh_meta
              /\ call.op = "get_work_packets" =>
                    call.value \in
                      {<<>>, FilesInOrder(cache_get(before.cached_fresh_meta))}
              /\ call.op = "save_fresh_meta" =>
                    sidecar'[TheAlbum] = Some(cache_get(before.cached_fresh_meta))
        /\ (/\ is_cached(before.cached_saved_meta)
             /\ is_cached(before.cached_fresh_meta)
             /\ call.op = "needs_processing") =>
              call.value =
                YesNo(\/ is_none(cache_get(before.cached_saved_meta))
                      \/ Differs(unwrap(cache_get(before.cached_saved_meta)),
                                 cache_get(before.cached_fresh_meta)))

\* C13: each cache of an AlbumWorkPacket is write-once. Over any sequence of
\* needs_processing, get_work_packets and save_fresh_meta calls on one
\* packet, a cache is written only by a call that found it empty (so the
\* saved snapshot is loaded at most once and the fresh snapshot generated
\* at most once), it never changes afterwards, and every later call works
\* with the cached value even if the files on disk have changed since.
C13_CachesAreWriteOnce == [][C13_CallStep]_vars

\* The packet cached a fresh snapshot, the directory changed, and a later
\* get_work_packets still gave the packets of the cached snapshot.
C13_Witness ==
    /\ last_call.op = "get_work_packets"
    /\ ~last_call.new_packet
    /\ is_cached(ThePacket.cached_fresh_meta)
    /\ CachedFresh # album_files[TheAlbum]
    /\ last_call.value = FilesInOrder(CachedFresh)
    /\ last_call.value # FilesInOrder(album_files[TheAlbum])
    /\ is_cached(ThePacket.cached_saved_meta)
    /\ CachedSaved # sidecar[TheAlbum]

----------------------------------------------------------------------------
(* Properties of a run followed by a second run (Spec) *)

\* Every file packet of the album finished without error, its batch
\* returned Ok and save_fresh_meta was called and returned Ok.
SavedAfterSuccess(a) ==
    /\ returned[a] = "Ok"
    /\ \A p \in Paths : job[a][p] \in {"absent", "finished_ok"}
    /\ save_calls[a] = 1
    /\ result = "Ok" \/ ~SaveFailed(a)

\* C14: after a run in which some file of an album failed, a second run on
\* the unchanged file system, with a newly constructed AlbumWorkPacket for
\* the album, says again that the album needs processing and gives as many
\* file packets as the first run.
C14_SecondRunAfterFailure ==
    last_call.op = "second_run" =>
        LET a == last_call.album IN
        (\E p \in Paths : job[a][p] \in Failed) =>
            /\ needed[a] # "no"
            /\ last_call.needs_processing = "yes"
            /\ last_call.packets = packet_count[a]

C14_Witness ==
    /\ last_call.op = "second_run"
    /\ \E p, q \in Paths :
          /\ job[last_call.album][p] = "finished_err"
          /\ job[last_call.album][q] = "finished_ok"
    /\ needed[last_call.album] = "yes"
    /\ last_call.needs_processing = "yes"
    /\ last_call.packets = MaxFiles
    /\ packet_count[last_call.album] = MaxFiles

----------------------------------------------------------------------------
(* Properties of LibraryMeta::diff as needs_processing uses it (SpecAlbum) *)

\* C16: for every snapshot S, diff(S, S) has empty added, removed and
\* changed sets and has_any_changes is false; needs_processing on a packet
\* whose saved snapshot equals its fresh snapshot returns false.
C16_EqualSnapshotsNeedNoProcessing ==
    /\ \A S \in LibraryMetas :
          /\ diff(S, S) = [added |-> {}, removed |-> {}, changed |-> {}]
          /\ ~has_any_changes(diff(S, S))
    /\ (/\ last_call.op = "needs_processing"
         /\ is_cached(ThePacket.cached_saved_meta)
         /\ is_cached(ThePacket.cached_fresh_meta)
         /\ CachedSaved = Some(CachedFresh)) => last_call.value = "no"

C16_Witness ==
    /\ last_call.op = "needs_processing"
    /\ last_call.new_packet
    /\ last_call.disk_saved = Some(last_call.disk_fresh)
    /\ DOMAIN last_call.disk_fresh.files = Paths
    /\ CachedSaved = Some(CachedFresh)
    /\ last_call.value = "no"

\* The diff needs_processing took of the snapshots a new packet found.
DiffOfCall == diff(unwrap(last_call.disk_saved), last_call.disk_fresh)

\* C17: for every pair of saved and fresh snapshots, every path in changed
\* is in both snapshots with different fingerprints, every path in added is
\* in the fresh snapshot only, every path in removed is in the saved
\* snapshot only; the three sets are pairwise disjoint, and a path in both
\* snapshots with equal fingerprints is in none of them.
C17_DiffClassifiesPaths ==
    (/\ last_call.op = "needs_processing"
     /\ last_call.new_packet
     /\ ~is_none(last_call.disk_saved)) =>
        LET saved == unwrap(last_call.disk_saved).files
            fresh == last_call.disk_fresh.files
            d == DiffOfCall
        IN /\ \A p \in d.changed :
                 /\ p \in DOMAIN saved /\ p \in DOMAIN fresh
                 /\ saved[p] # fresh[p]
           /\ \A p \in d.added : p \in DOMAIN fresh /\ p \notin DOMAIN saved
           /\ \A p \in d.removed : p \in DOMAIN saved /\ p \notin DOMAIN fresh
           /\ d.changed \cap d.added = {}
           /\ d.changed \cap d.removed = {}
           /\ d.added \cap d.removed = {}
           /\ \A p \in (DOMAIN saved) \cap (DOMAIN fresh) :
                 saved[p] = fresh[p] =>
                    p \notin d.changed \cup d.added \cup d.removed

\* One path changed and another added, or one changed and another equal.
C17_Witness ==
    /\ last_call.op = "needs_processing"
    /\ last_call.new_packet
    /\ ~is_none(last_call.disk_saved)
    /\ DiffOfCall.changed # {}
    /\ \/ DiffOfCall.added # {}
       \/ \E p \in DOMAIN last_call.disk_fresh.files :
             /\ p \in DOMAIN unwrap(last_call.disk_saved).files
             /\ unwrap(last_call.disk_saved).files[p]
                  = last_call.disk_fresh.files[p]
    /\ last_call.value = "yes"

----------------------------------------------------------------------------
(* Properties of the pool and of the configuration (Spec) *)

\* The file jobs whose process() call is executing.
Executing == {ap \in Albums \X Paths : job[ap[1]][ap[2]] = "processing"}

C18_PoolBound ==
    /\ Cardinality(Executing) <= transcode_threads
    /\ Len(thread_pool) <= 1
    /\ thread_pool # <<>> => current_num_threads = transcode_threads
    /\ (\E a \in Albums : Dispatched(a)) => thread_pool # <<>>

C18_PoolStep ==
    thread_pool # <<>> =>
        /\ thread_pool' = thread_pool
        /\ transcode_threads' = transcode_threads

\* C18: at every moment of a run the number of file jobs whose process()
\* call is executing is at most transcode_threads; the command builds one
\* pool, of transcode_threads threads, before any job is dispatched, and
\* neither the pool nor the configured value changes afterwards.
C18_AtMostTranscodeThreadsJobs == []C18_PoolBound /\ [][C18_PoolStep]_vars

\* Every thread of the pool executes process() and a spawned job waits.
C18_Witness ==
    /\ thread_pool # <<>>
    /\ Cardinality(Executing) = transcode_threads
    /\ \E a \in Albums, p \in Paths : job[a][p] = "spawned"

\* Nothing of a command has happened: no scan, no pool, no job, no save.
NothingRan ==
    /\ thread_pool = <<>>
    /\ album_packets = [a \in Albums |-> from_album_info]
    /\ \A a \in Albums :
          /\ needed[a] = "unknown"
          /\ packet_count[a] = -1
          /\ save_calls[a] = 0
          /\ returned[a] = "none"
          /\ \A p \in Paths : job[a][p] = "absent"
    /\ sidecar = sidecar_at_start

\* C19: resolving an aggregated-library configuration whose
\* transcode_threads is 0 never yields Ok: the result is an error, and it
\* is ZeroTranscodeThreads when the path is valid. Every configuration a
\* command runs with has transcode_threads >= 1, and a run whose
\* configuration failed to resolve ends before any scan, pool creation or
\* job dispatch.
C19_ZeroThreadsNeverResolves ==
    /\ \A u \in UnresolvedConfigurations :
          u.transcode_threads = 0 =>
              /\ try_resolve(u).error \in ConfigurationErrors
              /\ u.path = "valid" =>
                    try_resolve(u).error = "ZeroTranscodeThreads"
    /\ unresolved.transcode_threads = 0 =>
          \/ pc = "config" /\ result = "running"
          \/ pc = "done" /\ result \in ConfigurationErrors
    /\ result \in ConfigurationErrors => pc = "done" /\ NothingRan
    /\ pc = "config" => NothingRan
    /\ (pc # "config" /\ result \notin ConfigurationErrors) =>
          /\ transcode_threads >= 1
          /\ transcode_threads = unresolved.transcode_threads

C19_Witness ==
    /\ unresolved = [path |-> "valid", transcode_threads |-> 0]
    /\ pc = "done"
    /\ result = "ZeroTranscodeThreads"
    /\ NothingRan

----------------------------------------------------------------------------
(* Properties of the queue (SpecQueue) *)

ItemStates == {"Pending", "InProgress", "Finished"}

\* The item the last call named, as it is now.
CalledItem == unwrap(find_item_by_id(unwrap(state.queue_state),
                                     backend_call.item_id))

\* C20: queue transitions are not guarded. queue_item_finish(id, was_ok) on
\* an item that exists in an enabled queue returns Ok whatever the state of
\* the item (also Pending, never started), and afterwards the item is not
\* active and its finished state has is_ok = was_ok; queue_item_start(id)
\* on an existing item returns Ok and the item is active afterwards.
C20_TransitionsAreNotGuarded ==
    /\ (/\ backend_call.op = "queue_item_finish"
         /\ backend_call.found \in ItemStates) =>
            /\ backend_call.result = "Ok"
            /\ Found(state, backend_call.item_id) = "Finished"
            /\ ~CalledItem.is_active
            /\ CalledItem.finished_state =
                  Some([is_ok |-> backend_call.was_ok])
    /\ (/\ backend_call.op = "queue_item_start"
         /\ backend_call.found \in ItemStates) =>
            /\ backend_call.result = "Ok"
            /\ Found(state, backend_call.item_id) \in ItemStates
            /\ CalledItem.is_active

\* An item that was never started is finished as failed.
C20_Witness ==
    /\ backend_call.op = "queue_item_finish"
    /\ backend_call.found = "Pending"
    /\ ~backend_call.was_ok
    /\ backend_call.result = "Ok"
    /\ CalledItem.finished_state = Some([is_ok |-> FALSE])
    /\ ~CalledItem.is_active

----------------------------------------------------------------------------
\* The queue functions that take an item ID, and all that need the queue.
ItemFunctionsOfBackend ==
    {"queue_item_start", "queue_item_finish", "queue_item_modify",
     "queue_item_remove"}

QueueFunctionsOfBackend ==
    ItemFunctionsOfBackend \cup {"queue_item_add", "queue_clear"}

\* C21: add, start, finish, modify, remove and clear return an error when
\* the queue is disabled, start, finish, modify and remove return an error
\* when no item of the queue has the ID, and a call that returns such an
\* error leaves the queue state, the progress state and the log journal as
\* they were.
C21_ErrorStep ==
    backend_call'.op \in QueueFunctionsOfBackend =>
        LET found == Found(state, backend_call'.item_id)
        IN /\ found = "disabled" => backend_call'.result = "Err"
           /\ (backend_call'.op \in ItemFunctionsOfBackend /\ found = "absent")
                 => backend_call'.result = "Err"
           /\ (backend_call'.result = "Err" /\ found \in {"disabled", "absent"})
                 => state' = state

C21_DisabledOrUnknownIsAnError == [][C21_ErrorStep]_vars

\* An unknown ID was refused while a progress total and a log line existed.
C21_Witness ==
    /\ backend_call.op = "queue_item_modify"
    /\ backend_call.result = "Err"
    /\ backend_call.found = "absent"
    /\ state.progress = Some([current |-> 0, total |-> MaxQueueItems])
    /\ state.log_journal # <<>>

----------------------------------------------------------------------------
\* The IDs issued for a queue type that was cleared afterwards.
ClearedIDs == {issued[n].id : n \in {k \in DOMAIN issued : issued[k].cleared}}

\* C22: a successful queue_clear leaves no item of its queue type and leaves
\* the items of the other two types, their states and the progress state as
\* they were; from then on start, finish, modify and remove return an error
\* for every ID that was issued for the cleared type.
C22_ClearStep ==
    /\ (backend_call'.op = "queue_clear" /\ backend_call'.result = "Ok") =>
          LET before == unwrap(state.queue_state)
              after == unwrap(state'.queue_state)
          IN /\ ItemsOfType(after, backend_call'.arg) = <<>>
             /\ \A other \in QueueTypes \ {backend_call'.arg} :
                   ItemsOfType(after, other) = ItemsOfType(before, other)
             /\ state'.progress = state.progress
    /\ (/\ backend_call'.op \in ItemFunctionsOfBackend
        /\ backend_call'.item_id \in ClearedIDs)
          => backend_call'.result = "Err"

C22_ClearEmptiesOneQueue == [][C22_ClearStep]_vars

\* An item of a cleared queue was refused while an item of another type is
\* still queued and the progress indicator is on.
C22_Witness ==
    /\ backend_call.op \in ItemFunctionsOfBackend
    /\ backend_call.item_id \in ClearedIDs
    /\ backend_call.result = "Err"
    /\ ~is_none(state.queue_state)
    /\ AllItems(unwrap(state.queue_state)) # <<>>
    /\ ~is_none(state.progress)

----------------------------------------------------------------------------
\* C23: the IDs that successful queue_item_add calls returned are strictly
\* increasing in call order (hence pairwise distinct), whatever removes,
\* clears and queue_end / queue_begin pairs lie between the calls, and the
\* item a successful add has just added is Pending.
C23_IncreasingIDs ==
    \A n, k \in DOMAIN issued : n < k => issued[n].id < issued[k].id

C23_AddStep ==
    (backend_call'.op = "queue_item_add" /\ backend_call'.result = "Ok") =>
        /\ Found(state, backend_call'.item_id) = "absent"
        /\ Found(state', backend_call'.item_id) = "Pending"

C23_AddedItemsGetFreshIDs == []C23_IncreasingIDs /\ [][C23_AddStep]_vars

\* A second item was added after the first one had left the queue.
C23_Witness ==
    /\ backend_call.op = "queue_item_add"
    /\ backend_call.result = "Ok"
    /\ Len(issued) = MaxQueueItems
    /\ Len(AllItems(unwrap(state.queue_state))) = 1

----------------------------------------------------------------------------
\* C24: progress_set_total and progress_set_current return an error exactly
\* when the progress indicator is disabled, and then change nothing; on an
\* enabled indicator set_total writes total only and set_current writes
\* current only, neither touches the queue state, and progress_begin sets
\* the pair to current = 0, total = 0.
C24_ProgressStep ==
    LET call == backend_call'
        Setter == call.op \in {"progress_set_total", "progress_set_current"}
    IN /\ Setter => /\ (call.result = "Err") <=> is_none(state.progress)
                    /\ call.result = "Err" => state' = state
                    /\ state'.queue_state = state.queue_state
                    /\ state'.log_journal = state.log_journal
       /\ (call.op = "progress_set_total" /\ call.result = "Ok") =>
             /\ unwrap(state'.progress).total = call.item_id
             /\ unwrap(state'.progress).current = unwrap(state.progress).current
       /\ (call.op = "progress_set_current" /\ call.result = "Ok") =>
             /\ unwrap(state'.progress).current = call.item_id
             /\ unwrap(state'.progress).total = unwrap(state.progress).total
       /\ call.op = "progress_begin" =>
             /\ state'.progress = Some([current |-> 0, total |-> 0])
             /\ state'.queue_state = state.queue_state

C24_ProgressSettersNeedBegin == [][C24_ProgressStep]_vars

\* The position was set after the total, next to a queue that holds an item.
C24_Witness ==
    /\ backend_call.op = "progress_set_current"
    /\ backend_call.result = "Ok"
    /\ state.progress =
          Some([current |-> MaxQueueItems, total |-> MaxQueueItems])
    /\ ~is_none(state.queue_state)
    /\ AllItems(unwrap(state.queue_state)) # <<>>

----------------------------------------------------------------------------
\* C25: the progress bar's lock is held only by a job whose process() call
\* has returned and that has not ended yet: never by a job that is inside
\* process(), that waits for a thread, or that is over. A job inside
\* process() therefore keeps no other job from taking the lock.
C25_LockOnlyAfterProcess ==
    /\ lock # <<>> => job[lock[1]][lock[2]] \in {"locked_ok", "locked_err"}
    /\ \A a \in Albums, p \in Paths :
          job[a][p] \in {"locked_ok", "locked_err"} => lock = <<a, p>>

\* One job holds the lock while another is inside process().
C25_Witness ==
    \E a \in Albums, p, q \in Paths :
        /\ p # q
        /\ job[a][p] = "processing"
        /\ job[a][q] \in {"locked_ok", "locked_err"}
        /\ lock = <<a, q>>

----------------------------------------------------------------------------
----------------------------------------------------------------------------
\* The jobs of an album that were dispatched and have not ended.
InFlight(a) ==
    {p \in Paths : job[a][p] \in {"spawned", "processing", "processed_ok",
                                  "processed_err", "locked_ok", "locked_err"}}

\* C27: the step in which the key 'q' is forwarded appends one Exit message
\* to the user-control channel and changes nothing else: the render thread
\* stays in its loop, the queue and progress state, every job and the main
\* thread are as before. A batch returns only when none of its jobs is in
\* flight, also when an Exit message is on the channel.
C27_StopStep ==
    user_control' # user_control =>
        /\ user_control' = Append(user_control, "Exit")
        /\ render_pc' = render_pc /\ render_pc' = "poll"
        /\ UNCHANGED <<queueVars, backend, terminal_lock, state_lock,
                       rendered, caller, stop_channel, main_pc, exit_code,
                       transcodeVars>>

C27_NoJobInFlightAtReturn ==
    \A a \in Albums : returned[a] # "none" => InFlight(a) = {}

C27_StopRequestOnlySendsExit ==
    []C27_NoJobInFlightAtReturn /\ [][C27_StopStep]_vars

\* The batch returned with all its jobs over although Exit was on the
\* channel while jobs were still to be run.
C27_Witness ==
    /\ user_control # <<>>
    /\ returned[1] = "Ok"
    /\ \A p \in 1..MaxFiles : job[1][p] = "finished_ok"
    /\ render_pc \in {"poll", "draw"}

----------------------------------------------------------------------------
\* C28: with fair scheduling and process() calls that return, a batch that
\* was entered returns. Nothing but the return of process() moves a job out
\* of process(), and while a job of an album is inside process() the batch
\* of the album has not returned, no snapshot of the album was saved and no
\* job of another album that is still to do exists.
C28_WhileProcessing ==
    \A a \in Albums, p \in Paths :
        job[a][p] = "processing" =>
            /\ returned[a] = "none"
            /\ cur = a
            /\ pc \in {"scope", "join"}
            /\ save_calls[a] = 0
            /\ sidecar[a] = sidecar_at_start[a]
            /\ \A n \in DOMAIN todo : \A q \in Paths :
                  job[todo[n]][q] = "absent"

C28_NoTimeout ==
    \A a \in Albums, p \in Paths :
        (job[a][p] = "processing" /\ job'[a][p] # "processing") =>
            job'[a][p] \in {"processed_ok", "processed_err"}

C28_BatchReturns ==
    \A a \in Albums : (cur = a /\ pc = "scope") ~> (returned[a] # "none")

C28_BatchTerminates ==
    C28_BatchReturns /\ []C28_WhileProcessing /\ [][C28_NoTimeout]_vars

\* The batch of the first album returned after a failed job, and the next
\* album runs a job.
C28_Witness ==
    /\ returned[1] = "Err"
    /\ \E p \in Paths : job[1][p] = "finished_err"
    /\ InFlight(1) = {}

----------------------------------------------------------------------------
\* C29: when the process has exited after cmd_transcode_all returned, its
\* exit code is not 0 if the command returned an error (a failed batch, a
\* failed scan, a failed save) and 0 if it returned Ok; and a command that
\* found no album in need of processing returned Ok with no thread pool
\* built, no job dispatched and no snapshot saved.
C29_ExitCodeFollowsResult ==
    /\ (main_pc = "exited" /\ result = "Err") => exit_code > 0
    /\ (main_pc = "exited" /\ result = "Ok") => exit_code = 0
    /\ (\E a \in Albums : returned[a] = "Err") => result = "Err"
    /\ (pc = "done" /\ result \in {"Ok", "Err"}
          /\ \A a \in Albums : needed[a] = "no") =>
          /\ result = "Ok"
          /\ thread_pool = <<>>
          /\ \A a \in Albums, p \in Paths : job[a][p] = "absent"
          /\ \A a \in Albums : save_calls[a] = 0
          /\ sidecar = sidecar_at_start

\* The process exited with 1 after the batch of an album had failed.
C29_Witness ==
    /\ main_pc = "exited"
    /\ exit_code = 1
    /\ \E a \in Albums : returned[a] = "Err"

----------------------------------------------------------------------------
\* The error of the command was given to log_println.
ErrorLogged ==
    \E n \in DOMAIN state.log_journal : state.log_journal[n] = "error"

\* destroy() of the backend has begun.
DestroyBegun ==
    \/ stop_channel > 0
    \/ render_pc \in {"last_lock_terminal", "last_lock_state", "last_draw",
                      "ended", "joined"}

\* C30: whenever the transcode command ends with an error (the process
\* exits with a code other than 0 after the backend was set up), the error
\* was given to log_println before destroy() began and before the exit; in
\* particular an Err of cmd_transcode_all is logged before destroy().
C30_EveryErrorIsLogged ==
    /\ (main_pc = "exited" /\ exit_code > 0 /\ backend.has_been_set_up)
          => ErrorLogged
    /\ (result = "Err" /\ (DestroyBegun \/ main_pc \in {"destroyed", "exited"}))
          => ErrorLogged

-----------------------------------------------------------------------------
\* C31: after any sequence of log_println and log_newline calls, once a call
\* has returned the journal holds at most LOG_JOURNAL_MAX_LINES entries, and
\* they are the most recent ones: the journal after a call is the lines of
\* the call, newest first, followed by the entries it held before, cut after
\* the first LOG_JOURNAL_MAX_LINES entries.
MostRecent(journal) ==
    SubSeq(journal, 1,
           IF Len(journal) > LOG_JOURNAL_MAX_LINES
           THEN LOG_JOURNAL_MAX_LINES ELSE Len(journal))

C31_LogStep ==
    /\ state'.log_journal # state.log_journal
      => /\ backend_call'.op \in {"log_newline", "log_println"}
         /\ state'.log_journal =
              MostRecent(push_front_all(state.log_journal,
                  IF backend_call'.op = "log_newline" THEN <<"newline">>
                  ELSE ContentLines(backend_call'.lines)))

C31_JournalKeepsTheMostRecentLines ==
    /\ [](Len(state.log_journal) <= LOG_JOURNAL_MAX_LINES)
    /\ [][C31_LogStep]_vars

-----------------------------------------------------------------------------
\* C32: the stop protocol of the render thread. Until the stop signal is
\* sent every check of the channel is followed by a render pass and every
\* pass by the next check; once destroy() has sent the signal the thread
\* leaves the loop at its next check, renders one last time and ends, and
\* destroy() returns after that, and only after that; after destroy() has
\* returned nothing is rendered.
RenderEnded == render_pc \in {"ended", "joined"}

C32_StopStep ==
    \* the loop is left only on a stop signal, which the check consumes
    /\ (render_pc = "check_stop" /\ render_pc' # render_pc)
       => IF stop_channel > 0
          THEN render_pc' = "last_lock_terminal"
               /\ stop_channel' = stop_channel - 1
          ELSE render_pc' = "lock_terminal"
    \* the thread ends with the last render, and only with it
    /\ (render_pc' = "ended" /\ render_pc # "ended")
       => render_pc = "last_draw" /\ rendered' \in {"whole", "torn"}
    /\ (render_pc = "last_draw" /\ render_pc' # render_pc)
       => render_pc' = "ended"
    \* destroy() returns only when the thread has ended
    /\ (caller.pc = "join" /\ caller'.pc # "join")
       => render_pc = "ended" /\ render_pc' = "joined"
    \* an ended thread does not render
    /\ RenderEnded => (RenderEnded' /\ rendered' = rendered)

CallerWaitsForTerminal == caller.pc = "log_lock_terminal"
CallerWaitsForState ==
    caller.pc \in {"log_lock_state", "newline_lock_state", "trim_lock"}
RenderWaitsForTerminal ==
    render_pc \in {"lock_terminal", "last_lock_terminal"}
RenderWaitsForState == render_pc \in {"lock_state", "last_lock_state"}

C33_LockOrder ==
    /\ CallerWaitsForTerminal
       => terminal_lock # "caller" /\ state_lock # "caller"
    /\ CallerWaitsForState => state_lock # "caller"
    /\ caller.pc = "trim_lock" => terminal_lock # "caller"
    /\ RenderWaitsForTerminal
       => terminal_lock # "render" /\ state_lock # "render"
    /\ RenderWaitsForState => state_lock # "render"

C33_EveryLockRequestIsGranted ==
    /\ []C33_LockOrder
    /\ CallerWaitsForTerminal ~> (terminal_lock = "caller")
    /\ CallerWaitsForState ~> (state_lock = "caller")
    /\ RenderWaitsForTerminal ~> (terminal_lock = "render")
    /\ RenderWaitsForState ~> (state_lock = "render")

C33_Witness ==
    /\ caller.pc = "trim"
    /\ state_lock = "caller"
    /\ render_pc = "lock_state"
    /\ terminal_lock = "render"
    /\ backend_call.op = "log_println"

-----------------------------------------------------------------------------
\* C34: on every path through run_requested_cli_command on which setup() was
\* called, destroy() has run before the function returns: when the process
\* exits after a setup, the render thread has been stopped and joined.
C34_DestroyBeforeReturn ==
    (main_pc = "exited" /\ backend.has_been_set_up) => render_pc = "joined"

-----------------------------------------------------------------------------
\* C35: save_fresh_meta writes the snapshot the packet has cached, the one
\* get_work_packets built the file packets from; it is not generated again.
\* If the tracked files of the directory have changed since it was cached,
\* the persisted snapshot is not the one of the directory, and a new packet
\* of the next run says that the album needs processing.
C35_SaveStep ==
    LET before == album_packets[TheAlbum]
        after == album_packets'[TheAlbum]
        call == last_call'
    IN /\ (call.op = "get_work_packets" /\ call.value # <<>>)
          => call.value = FilesInOrder(cache_get(after.cached_fresh_meta))
       /\ (call.op = "save_fresh_meta" /\ is_cached(before.cached_fresh_meta))
          => /\ sidecar'[TheAlbum] = Some(cache_get(before.cached_fresh_meta))
             /\ after.cached_fresh_meta = before.cached_fresh_meta
             /\ cache_get(before.cached_fresh_meta) # album_files'[TheAlbum]
                => /\ sidecar'[TheAlbum] # Some(album_files'[TheAlbum])
                   /\ needs_processing(from_album_info, sidecar'[TheAlbum],
                                       album_files'[TheAlbum]).value

C35_SavedSnapshotIsTheCachedOne == [][C35_SaveStep]_vars

\* The directory changed after the snapshot was cached, and the snapshot
\* that was saved is the cached one.
C35_Witness ==
    /\ last_call.op = "save_fresh_meta"
    /\ ~last_call.new_packet
    /\ last_call.disk_fresh # CachedFresh
    /\ album_files[TheAlbum] = last_call.disk_fresh
    /\ sidecar[TheAlbum] = Some(CachedFresh)
    /\ FilesInOrder(CachedFresh) # FilesInOrder(album_files[TheAlbum])

-----------------------------------------------------------------------------
\* C36: cmd_transcode_all enters the libraries in non-decreasing order of
\* their names and dispatches the albums of a library, while it is in that
\* library, in non-decreasing order of their titles; a library that is
\* entered has an album in need of processing, and an album that is
\* dispatched is one for which needs_processing was true during the scan.
IsLibraryEntry(i) == processed[i].album = None
IsAlbumEntry(i) == processed[i].album # None

C36_ProcessingOrder ==
    LET n == Len(processed) IN
    /\ \A i, j \in 1..n :
          (i < j /\ IsLibraryEntry(i) /\ IsLibraryEntry(j))
          => processed[i].library <= processed[j].library
    /\ \A i, j \in 1..n :
          (/\ i < j /\ IsAlbumEntry(i) /\ IsAlbumEntry(j)
           /\ processed[i].library = processed[j].library)
          => unwrap(processed[i].album).album_title
                <= unwrap(processed[j].album).album_title
    /\ \A i \in 1..n :
          IsAlbumEntry(i)
          => \E k \in 1..(i - 1) :
                /\ IsLibraryEntry(k)
                /\ processed[k].library = processed[i].library
                /\ \A m \in (k + 1)..(i - 1) : IsAlbumEntry(m)
    /\ \A i \in 1..n :
          \E l \in 1..Len(unwrap(library_packets)) :
             LET packet == unwrap(library_packets)[l] IN
             /\ packet.name = processed[i].library
             /\ \E a \in 1..Len(packet.albums) :
                   /\ packet.albums[a].needs_processing
                   /\ IsAlbumEntry(i)
                      => packet.albums[a] = unwrap(processed[i].album)

\* Both libraries were entered and all their albums in need of processing
\* dispatched, though the second library was listed first, its albums were
\* discovered in decreasing order of title, and an album of the first
\* library needed no processing.
C36_Witness ==
    /\ library_packets # None
    /\ Len(unwrap(library_packets)) = 2
    /\ unwrap(library_packets)[1].name > unwrap(library_packets)[2].name
    /\ Len(unwrap(library_packets)[1].albums) = 2
    /\ unwrap(library_packets)[1].albums[1].album_title
          > unwrap(library_packets)[1].albums[2].album_title
    /\ \A a \in 1..2 : unwrap(library_packets)[1].albums[a].needs_processing
    /\ \E a \in 1..Len(unwrap(library_packets)[2].albums) :
          ~unwrap(library_packets)[2].albums[a].needs_processing
    /\ filtered_library_packets = Some(<<>>)
    /\ Len(processed) = 5

-----------------------------------------------------------------------------
\* C39: when a base path cannot be canonicalized, the error names the path
\* that failed: FailedToCanonicalizeBaseLibraryPath carries the configured
\* base_library_path as original_path, FailedToCanonicalizeBaseToolsPath
\* the configured base_tools_path, and no PathsConfiguration is produced.
C39_ErrorNamesTheFailedPath ==
    configuration # None =>
        LET r == unwrap(configuration)
            u == unwrap(unresolved_configuration)
        IN /\ r.error = "FailedToCanonicalizeBaseLibraryPath"
              => /\ r.original_path = Some(u.base_library_path)
                 /\ r.paths = None
           /\ r.error = "FailedToCanonicalizeBaseToolsPath"
              => /\ r.original_path = Some(u.base_tools_path)
                 /\ r.paths = None

-----------------------------------------------------------------------------
\* C38: a resolved LibraryTranscodingConfiguration never says of a file path
\* that it is an audio file and a data file; all_tracked_extensions holds
\* exactly the lower-cased audio and other extensions, so that a file is
\* tracked if and only if it is an audio file or a data file.
Elements(list) == {list[i] : i \in 1..Len(list)}

C38_AudioOrDataNotBoth ==
    /\ configuration # None
       => LET c == unwrap(configuration)
              u == unwrap(unresolved_configuration)
          IN Elements(c.all_tracked_extensions) =
                {to_ascii_lowercase(e) :
                    e \in Elements(u.audio_file_extensions)
                          \cup Elements(u.other_file_extensions)}
    /\ classified # None
       => LET q == unwrap(classified)
          IN /\ ~(q.is_audio.value /\ q.is_data.value)
             /\ q.is_tracked.value <=> (q.is_audio.value \/ q.is_data.value)

-----------------------------------------------------------------------------
\* C37: a Configuration that try_resolve returns has one library per key of
\* the libraries table, each under the display name of its entry, and no
\* two of them have the same display name. If two entries of the table have
\* the same display name no Configuration is returned, and if the paths,
\* logging and tools tables and every entry up to the second of the two
\* resolve, the error is LibraryDisplayNameConflict with a display name that
\* two entries share.
SameName(table, k1, k2) ==
    /\ k1 \in DOMAIN table /\ k2 \in DOMAIN table
    /\ k1 < k2
    /\ table[k1].name = table[k2].name

ResolvesUpTo(u, key) ==
    /\ u.paths = "valid" /\ u.logging = "valid" /\ u.tools = "valid"
    /\ \A k \in DOMAIN u.libraries :
          k <= key => Library_try_resolve(u.libraries[k]).error = "none"

C37_DistinctDisplayNames ==
    configuration # None =>
        LET r == unwrap(configuration)
            u == unwrap(unresolved_configuration)
            table == u.libraries
        IN /\ r.error = "none"
              => /\ DOMAIN unwrap(r.libraries) = DOMAIN table
                 /\ \A k \in DOMAIN table :
                       unwrap(r.libraries)[k].name = table[k].name
                 /\ \A k1, k2 \in DOMAIN table :
                       unwrap(r.libraries)[k1].name
                          = unwrap(r.libraries)[k2].name => k1 = k2
           /\ \A k1, k2 \in LibraryKeys :
                 SameName(table, k1, k2)
                 => /\ r.error # "none"
                    /\ r.libraries = None
                    /\ ResolvesUpTo(u, k2)
                       => /\ r.error = "LibraryDisplayNameConflict"
                          /\ \E j1, j2 \in LibraryKeys :
                                /\ SameName(table, j1, j2)
                                /\ r.library_display_name
                                      = Some(table[j1].name)

\* The first and the last of three entries have the same display name, the
\* one between them another, and the conflict is reported.
C37_Witness ==
    /\ configuration # None
    /\ unwrap(configuration).error = "LibraryDisplayNameConflict"
    /\ LET table == unwrap(unresolved_configuration).libraries
       IN /\ DOMAIN table = {1, 2, 3}
          /\ table[1].name = table[3].name
          /\ table[2].name # table[1].name
          /\ unwrap(configuration).library_display_name
                = Some(table[3].name)

====
